---- MODULE Spec2Model ----
(***************************************************************************)
(* Mesh / connectivity generator of the OpenSeesPy building model:         *)
(* geometry.py (legacy generator) and enhanced_geometry.py (cantilever     *)
(* aware generator), driven as main.py and test_orthogonal_beams.py do.    *)
(*                                                                         *)
(* Lengths are integers in millimetres, so the tolerance 0.001 (metres)    *)
(* of the orthogonality checks is Tol = 1.  Python's None is modelled by   *)
(* NoneVal = 0 (falsy, like None); node and element tags start at 1.       *)
(* Python lists are sequences; At(s, i) is the 0-based s[i].               *)
(***************************************************************************)
EXTENDS Integers, Sequences, FiniteSets, TLC

\* ---------------------------------------------------------------- bounds
MaxBayX == 2
MaxBayY == 2
MaxFloor == 2

\* ------------------------------------------------------ input value sets
\* bay widths of an axis with n bays: all equal, or alternating
WidthProfiles(n) ==
    {[b \in 1..n |-> 3000], [b \in 1..n |-> IF b % 2 = 1 THEN 2000 ELSE 3000]}
\* story heights: a taller first story
HeightProfiles(n) == {[b \in 1..n |-> IF b = 1 THEN 4000 ELSE 3000]}
CantileverLengths == {1500}

\* ------------------------------------------------------------- constants
NoneVal == 0
Tol == 1

\* --------------------------------------------------------------- helpers
At(s, i) == s[i + 1]

Abs(a) == IF a < 0 THEN 0 - a ELSE a

Range(s) == {s[n] : n \in 1..Len(s)}

\* dict.get(key): the stored value, or None when the key is absent
Get(m, key) == IF key \in DOMAIN m THEN m[key] ELSE NoneVal

\* m[key] = val on a dict
Put(m, key, val) == (key :> val) @@ m

EmptyMap == <<>>

\* Python truthiness of a cantilever entry (None or a dict with a length)
Active(c) == c # NoneVal

\* a Python value that is either None or an int (None == 0 is False in Python)
PyNone == [is_none |-> TRUE, val |-> 0]
PyInt(n) == [is_none |-> FALSE, val |-> n]

VARIABLES
    geometry_data,        \* the geometry dictionary handed to every function
    cantilever_config,    \* front/right/left: NoneVal or the cantilever length
    column_config,        \* the column-section policy (its 'type')
    column_groups,        \* the group ids present in column_config['groups']
    use_enhanced,         \* main.py: which pipeline runs
    pc,                   \* position of the driver (main / test script)
    run,                  \* 1 or 2: generation run within the process
    ops_nodes,            \* engine: node tag -> <<x, y, z>>
    ops_fixed,            \* engine: tags fixed in all six degrees of freedom
    ops_elements,         \* engine: element tag -> element record
    ops_sections,         \* engine: section tag -> class it was defined for
    node_index,           \* loop indices <<i, j, k>> at which each tag was created
    node_order,           \* node tags in creation order
    ele_order,            \* element tags in creation order
    total_nodes,
    node_mapping,         \* (i, j, k) -> node tag (enhanced generator)
    extended_x_coords,
    extended_y_coords,
    z_coords,
    column_elements_ids,
    beam_elements_x_ids,
    beam_elements_y_ids,
    cantilever_beam_ids,
    next_ele_tag,
    restricted_nodes,     \* main.py: what the boundary-condition step handed back
    skip_log,             \* number of "skipped element" messages printed
    first_run,            \* what run 1 produced, kept for comparison with run 2
    config_file,          \* main.py: content of the configuration file, or NoFile
    config_error,         \* input_data: loading the configuration file raised
    ops_shells,           \* engine: shell element tag -> <<n1, n2, n3, n4>>
    ops_loads,            \* engine: nodal loads of pattern 1, in application order
    slab_elements_ids,
    next_ele_tag_after_slabs,
    total_dead_load,      \* loads.apply_loads: the total it reports
    ignored_duplicates,   \* definitions of an existing tag dropped by except: pass
    worker,               \* analysis.py: the thread running ops.analyze(1)
    stale_workers,        \* worker threads left running by a timed-out join
    status,               \* what analyze_with_timeout returned last
    analysis_successful,  \* main.py: what analysis.run_analysis() returned
    analysis_success,     \* multi_analysis.py: what run_analysis() returned last
    caller,               \* who called run_analysis: "main" or "combination"
    steps,                \* main.py: the post-analysis steps executed so far
    selected_combinations,
    combo_i,              \* position of the loop over selected_combinations
    all_results,          \* multi_analysis: combination ids with extracted results
    successful_analyses,
    outcomes,             \* what happened to each processed combination
    multi_returned,       \* what run_multi_load_combination_analysis returned
    concurrent_engine_use \* an engine call was issued while a worker was running

slabEngine == <<ops_shells, ops_loads>>
engine == <<ops_nodes, ops_fixed, ops_elements, ops_sections, node_index, node_order,
           ele_order, slabEngine>>
input == <<config_file, config_error>>
slabOut == <<slab_elements_ids, next_ele_tag_after_slabs, total_dead_load,
             ignored_duplicates>>
solver == <<worker, stale_workers, status, analysis_successful, analysis_success,
            caller, steps,
            selected_combinations, combo_i, all_results, successful_analyses,
            outcomes, multi_returned, concurrent_engine_use>>
post == <<input, slabOut, solver>>
config == <<geometry_data, cantilever_config, column_config, column_groups, use_enhanced>>
nodeOut == <<total_nodes, node_mapping, extended_x_coords, extended_y_coords, z_coords>>
eleOut == <<column_elements_ids, beam_elements_x_ids, beam_elements_y_ids,
            cantilever_beam_ids, next_ele_tag>>
audit == <<restricted_nodes, skip_log>>
vars == <<config, pc, run, engine, nodeOut, eleOut, audit, first_run, post>>

\* ----------------------------------------------------- derived quantities
\* variant: x_coords.append(width), the running total is dropped
CumulativeCoordsNoSum(widths) == <<0>> \o widths

\* x_coords = [0]; for width in bay_widths: x_coords.append(x_coords[-1] + width)
RECURSIVE CumulativeCoords(_)
CumulativeCoords(widths) ==
    IF Len(widths) = 0 THEN <<0>>
    ELSE LET prev == CumulativeCoords(SubSeq(widths, 1, Len(widths) - 1))
         IN  Append(prev, prev[Len(prev)] + widths[Len(widths)])

x_coords == CumulativeCoords(geometry_data.bay_widths_x)
y_coords == CumulativeCoords(geometry_data.bay_widths_y)

\* extended_x_coords: the front cantilever appends one coordinate
ExtendedX(xc, cc) ==
    IF Active(cc.front) THEN Append(xc, xc[Len(xc)] + cc.front) ELSE xc

\* extended_y_coords: right appends, left inserts at position 0
ExtendedY(yc, cc) ==
    LET withRight == IF Active(cc.right) THEN Append(yc, yc[Len(yc)] + cc.right) ELSE yc
    IN  IF Active(cc.left) THEN <<yc[1] - cc.left>> \o withRight ELSE withRight

\* variant: the base level forgets the effective_j < 0 test
ShouldCreateNodeBaseLeft(i, j, k, lenX, lenY, lenExtX, lenExtY, cc) ==
    LET effective_j == j - (IF Active(cc.left) THEN 1 ELSE 0)
    IN  IF k = 0
        THEN ~(i >= lenX \/ effective_j >= lenY)
        ELSE IF Active(cc.left) /\ j = 0 THEN i < lenX
        ELSE IF Active(cc.front) /\ i = lenExtX - 1 THEN effective_j < lenY
        ELSE IF Active(cc.right) /\ j = lenExtY - 1 THEN i < lenX
        ELSE i < lenX /\ effective_j < lenY

\* the rule deciding whether node (i, j, k) exists
ShouldCreateNode(i, j, k, lenX, lenY, lenExtX, lenExtY, cc) ==
    LET effective_j == j - (IF Active(cc.left) THEN 1 ELSE 0)
    IN  IF k = 0
        THEN ~(i >= lenX \/ effective_j >= lenY \/ effective_j < 0)
        ELSE IF Active(cc.left) /\ j = 0 THEN i < lenX
        ELSE IF Active(cc.front) /\ i = lenExtX - 1 THEN effective_j < lenY
        ELSE IF Active(cc.right) /\ j = lenExtY - 1 THEN i < lenX
        ELSE i < lenX /\ effective_j < lenY

\* variant: node_id += 1 sits outside "if should_create_node"
NodeLoopBodyAlwaysCounts(st, p, ex, ey, zc, lenX, lenY, cc) ==
    LET nxy == Len(ex) * Len(ey)
        k == p \div nxy
        i == (p % nxy) \div Len(ey)
        j == p % Len(ey)
    IN  IF ShouldCreateNode(i, j, k, lenX, lenY, Len(ex), Len(ey), cc)
        THEN [node_id |-> st.node_id + 1,
              mapping |-> Put(st.mapping, <<i, j, k>>, st.node_id),
              nodes   |-> Put(st.nodes, st.node_id, <<At(ex, i), At(ey, j), At(zc, k)>>),
              index   |-> Put(st.index, st.node_id, <<i, j, k>>),
              order   |-> Append(st.order, st.node_id)]
        ELSE [st EXCEPT !.node_id = @ + 1]

\* one iteration of the k/i/j loop of generate_enhanced_nodes; p numbers the
\* iterations in loop order (k outermost, then i, then j)
NodeLoopBody(st, p, ex, ey, zc, lenX, lenY, cc) ==
    LET nxy == Len(ex) * Len(ey)
        k == p \div nxy
        i == (p % nxy) \div Len(ey)
        j == p % Len(ey)
    IN  IF ShouldCreateNode(i, j, k, lenX, lenY, Len(ex), Len(ey), cc)
        THEN [node_id |-> st.node_id + 1,
              mapping |-> Put(st.mapping, <<i, j, k>>, st.node_id),
              nodes   |-> Put(st.nodes, st.node_id, <<At(ex, i), At(ey, j), At(zc, k)>>),
              index   |-> Put(st.index, st.node_id, <<i, j, k>>),
              order   |-> Append(st.order, st.node_id)]
        ELSE st

RECURSIVE NodeLoop(_, _, _, _, _, _, _, _)
NodeLoop(st, p, ex, ey, zc, lenX, lenY, cc) ==
    IF p >= Len(ex) * Len(ey) * Len(zc) THEN st
    ELSE LET nxt == NodeLoopBody(st, p, ex, ey, zc, lenX, lenY, cc)
         IN  IF nxt.node_id >= st.node_id
             THEN NodeLoop(nxt, p + 1, ex, ey, zc, lenX, lenY, cc)
             ELSE nxt

\* variant: the tag counter is a process-wide global that goes on from the
\* previous run instead of restarting at 1
EnhancedNodeStartGlobalCounter ==
    [node_id |-> Len(first_run.node_order) + 1,
     mapping |-> EmptyMap, nodes |-> ops_nodes,
     index |-> node_index, order |-> node_order]

\* node_id = 1; node_mapping = {}
EnhancedNodeStart ==
    [node_id |-> 1, mapping |-> EmptyMap, nodes |-> ops_nodes,
     index |-> node_index, order |-> node_order]

\* ------------------------------------------------- engine section table
\* try: ops.section('Elastic', tag, ...) except: pass -- a tag that is already
\* defined keeps its first definition
DefineSection(secs, tag, cls) ==
    IF tag \in DOMAIN secs THEN secs ELSE Put(secs, tag, cls)

RECURSIVE DefineSections(_, _, _)
DefineSections(secs, tags, cls) ==
    IF tags = {} THEN secs
    ELSE LET t == CHOOSE q \in tags : \A r \in tags : q <= r
         IN  DefineSections(DefineSection(secs, t, cls), tags \ {t}, cls)

\* groups[group_id] for i in range(num_columns_x): for j in range(num_columns_y),
\* group_id = i * num_columns_y + j + 1: the ids advanced_config fills in
AllGroupIds(gd) == 1..((Len(gd.bay_widths_x) + 1) * (Len(gd.bay_widths_y) + 1))

\* group_id = i * num_columns_y + j + 1: the group advanced_config ties to (i, j)
AdvancedGroupId(i, j, num_columns_y) == i * num_columns_y + j + 1

\* for group_id, group_data in column_config['groups'].items()
CustomGroupIds == column_groups

\* the section tags created for the columns, by policy
ColumnSectionTags(ctype) ==
    IF ctype = "uniform" THEN {1}
    ELSE IF ctype = "exterior_interior" THEN {1, 2}
    ELSE CustomGroupIds

\* tag of the main-beam section: 2, or 20 when tag 2 is already taken
BeamSectionTag(secs) == IF 2 \in DOMAIN secs THEN 20 ELSE 2

\* ------------------------------------------------------ enhanced columns
\* j_adjusted offset of the column connector: read from
\* geometry_data.get('cantilever_config', {}), not from an argument
ColumnYOffset(gd, cc) ==
    IF gd.has_cantilever_config /\ Active(cc.left) THEN 1 ELSE 0

\* section-group id of the column at (i, j)
ColumnMaterialId(i, j, original_x_count, original_y_count, ctype) ==
    IF ctype = "uniform" THEN 1
    ELSE IF ctype = "exterior_interior"
         THEN IF i = 0 \/ i = original_x_count - 1 \/ j = 0 \/ j = original_y_count - 1
              THEN 1 ELSE 2
    ELSE i * original_y_count + j + 1

\* ops.element('elasticBeamColumn', tag, n1, n2, sec, transf)
ElasticBeamColumn(n1, n2, sec, transf) ==
    [nodes |-> <<n1, n2>>, sec |-> sec, transf |-> transf]

\* the engine refuses an element whose section tag was never defined: the
\* ops.element call raises and the exception leaves the generator
SectionDefined(secs, tag) == tag \in DOMAIN secs

\* one iteration of the k/i/j loop of generate_enhanced_column_elements
ColumnLoopBody(st, p, oxc, oyc, mapping, offset, ctype, secs) ==
    LET k == p \div (oxc * oyc)
        i == (p % (oxc * oyc)) \div oyc
        j == p % oyc
        j_adjusted == j + offset
        node_bottom == Get(mapping, <<i, j_adjusted, k>>)
        node_top == Get(mapping, <<i, j_adjusted, k + 1>>)
        material_id == ColumnMaterialId(i, j, oxc, oyc, ctype)
    IN  IF node_bottom # NoneVal /\ node_top # NoneVal
        THEN IF SectionDefined(secs, material_id)
             THEN [element_id |-> st.element_id + 1,
                   ids |-> Append(st.ids, st.element_id),
                   elements |-> Put(st.elements, st.element_id,
                                    ElasticBeamColumn(node_bottom, node_top,
                                                      material_id, 1)),
                   order |-> Append(st.order, st.element_id),
                   raised |-> FALSE]
             ELSE [st EXCEPT !.raised = TRUE]
        ELSE st

RECURSIVE ColumnLoop(_, _, _, _, _, _, _, _, _)
ColumnLoop(st, p, nStories, oxc, oyc, mapping, offset, ctype, secs) ==
    IF p >= nStories * oxc * oyc \/ st.raised THEN st
    ELSE LET nxt == ColumnLoopBody(st, p, oxc, oyc, mapping, offset, ctype, secs)
         IN  IF nxt.element_id >= st.element_id
             THEN ColumnLoop(nxt, p + 1, nStories, oxc, oyc, mapping, offset, ctype, secs)
             ELSE nxt

\* -------------------------------------------------------- enhanced beams
\* y_offset of the beam connector and of the boundary-condition applier
YOffset(cc) == IF Active(cc.left) THEN 1 ELSE 0

\* the orthogonality test: "Y" keeps abs(dy) and abs(dz) below the tolerance
\* (a beam along X), "X" keeps abs(dx) and abs(dz) below it (a beam along Y)
SameLine(line, coord1, coord2) ==
    IF line = "Y"
    THEN Abs(coord1[2] - coord2[2]) < Tol /\ Abs(coord1[3] - coord2[3]) < Tol
    ELSE Abs(coord1[1] - coord2[1]) < Tol /\ Abs(coord1[3] - coord2[3]) < Tol

Candidate(a, b, line, sec, transf, list) ==
    [a |-> a, b |-> b, line |-> line, sec |-> sec, transf |-> transf, list |-> list]

\* variant: the row loop is range(oyc - 1), the last row gets no X beam
XBeamCandidatesShortRows(k, oxc, oyc, off, sec) ==
    [p \in 1..((oxc - 1) * (oyc - 1)) |->
        LET i == (p - 1) \div (oyc - 1)
            j == (p - 1) % (oyc - 1)
        IN  Candidate(<<i, j + off, k>>, <<i + 1, j + off, k>>, "Y", sec, 2, "x")]

\* X beams of level k: for i in range(oxc - 1): for j in range(oyc)
XBeamCandidates(k, oxc, oyc, off, sec) ==
    [p \in 1..((oxc - 1) * oyc) |->
        LET i == (p - 1) \div oyc
            j == (p - 1) % oyc
        IN  Candidate(<<i, j + off, k>>, <<i + 1, j + off, k>>, "Y", sec, 2, "x")]

\* Y beams of level k: for i in range(oxc): for j in range(oyc - 1)
YBeamCandidates(k, oxc, oyc, off, sec) ==
    [p \in 1..(oxc * (oyc - 1)) |->
        LET i == (p - 1) \div (oyc - 1)
            j == (p - 1) % (oyc - 1)
        IN  Candidate(<<i, j + off, k>>, <<i, j + off + 1, k>>, "X", sec, 3, "y")]

\* variant: the connector starts one column before the last core column
FrontConnectorCandidatesOffByOne(k, oxc, oyc, lenExtX, off) ==
    [p \in 1..oyc |->
        Candidate(<<oxc - 2, (p - 1) + off, k>>, <<lenExtX - 1, (p - 1) + off, k>>,
                  "Y", 101, 2, "c")]

\* front cantilever, connectors: last core node of row j to the cantilever node
FrontConnectorCandidates(k, oxc, oyc, lenExtX, off) ==
    [p \in 1..oyc |->
        Candidate(<<oxc - 1, (p - 1) + off, k>>, <<lenExtX - 1, (p - 1) + off, k>>,
                  "Y", 101, 2, "c")]

\* front cantilever, border beam along the free edge
FrontBorderCandidates(k, oyc, lenExtX, off) ==
    [p \in 1..(oyc - 1) |->
        Candidate(<<lenExtX - 1, (p - 1) + off, k>>, <<lenExtX - 1, (p - 1) + off + 1, k>>,
                  "X", 101, 3, "c")]

\* right / left cantilever: border beam along X in row y_idx
SideBorderCandidates(k, oxc, y_idx, sec) ==
    [p \in 1..(oxc - 1) |->
        Candidate(<<p - 1, y_idx, k>>, <<p, y_idx, k>>, "Y", sec, 2, "c")]

\* every candidate pair of level k, in the order the code visits them
LevelCandidates(k, oxc, oyc, lenExtX, lenExtY, cc, sec) ==
    LET off == YOffset(cc)
    IN  XBeamCandidates(k, oxc, oyc, off, sec)
        \o YBeamCandidates(k, oxc, oyc, off, sec)
        \o (IF Active(cc.front)
            THEN FrontConnectorCandidates(k, oxc, oyc, lenExtX, off)
                 \o (IF oyc > 1 THEN FrontBorderCandidates(k, oyc, lenExtX, off)
                     ELSE <<>>)
            ELSE <<>>)
        \o (IF Active(cc.right) THEN SideBorderCandidates(k, oxc, lenExtY - 1, 102)
            ELSE <<>>)
        \o (IF Active(cc.left) THEN SideBorderCandidates(k, oxc, 0, 103) ELSE <<>>)

\* for k in range(1, len(z_coords))
RECURSIVE AllCandidates(_, _, _, _, _, _, _, _)
AllCandidates(k, lenZ, oxc, oyc, lenExtX, lenExtY, cc, sec) ==
    IF k >= lenZ THEN <<>>
    ELSE LevelCandidates(k, oxc, oyc, lenExtX, lenExtY, cc, sec)
         \o AllCandidates(k + 1, lenZ, oxc, oyc, lenExtX, lenExtY, cc, sec)

\* variant: element_id += 1 is forgotten after a beam is created
AddBeamSameTag(st, c, node1, node2) ==
    [element_id |-> st.element_id,
     x_ids |-> IF c.list = "x" THEN Append(st.x_ids, st.element_id) ELSE st.x_ids,
     y_ids |-> IF c.list = "y" THEN Append(st.y_ids, st.element_id) ELSE st.y_ids,
     c_ids |-> IF c.list = "c" THEN Append(st.c_ids, st.element_id) ELSE st.c_ids,
     elements |-> Put(st.elements, st.element_id,
                      ElasticBeamColumn(node1, node2, c.sec, c.transf)),
     order |-> Append(st.order, st.element_id)]

\* the element is created, its tag goes to the list of its class
AddBeam(st, c, node1, node2) ==
    [element_id |-> st.element_id + 1,
     x_ids |-> IF c.list = "x" THEN Append(st.x_ids, st.element_id) ELSE st.x_ids,
     y_ids |-> IF c.list = "y" THEN Append(st.y_ids, st.element_id) ELSE st.y_ids,
     c_ids |-> IF c.list = "c" THEN Append(st.c_ids, st.element_id) ELSE st.c_ids,
     elements |-> Put(st.elements, st.element_id,
                      ElasticBeamColumn(node1, node2, c.sec, c.transf)),
     order |-> Append(st.order, st.element_id)]

\* if node1 and node2: if <orthogonal>: ops.element(...) else: skip
TryBeam(st, c, mapping, nodes) ==
    LET node1 == Get(mapping, c.a)
        node2 == Get(mapping, c.b)
    IN  IF node1 # NoneVal /\ node2 # NoneVal
        THEN IF SameLine(c.line, nodes[node1], nodes[node2])
             THEN AddBeam(st, c, node1, node2)
             ELSE st
        ELSE st

RECURSIVE BeamLoop(_, _, _, _, _)
BeamLoop(st, cands, n, mapping, nodes) ==
    IF n > Len(cands) THEN st
    ELSE LET nxt == TryBeam(st, cands[n], mapping, nodes)
         IN  IF nxt.element_id >= st.element_id
             THEN BeamLoop(nxt, cands, n + 1, mapping, nodes)
             ELSE nxt

\* print("Saltando viga diagonal ..."): the only message of the enhanced beam
\* connector about a candidate it does not create; a missing node prints nothing
BeamSkipMessages(cands, mapping, nodes) ==
    Cardinality({n \in 1..Len(cands) :
        /\ Get(mapping, cands[n].a) # NoneVal
        /\ Get(mapping, cands[n].b) # NoneVal
        /\ ~SameLine(cands[n].line, nodes[Get(mapping, cands[n].a)],
                     nodes[Get(mapping, cands[n].b)])})

\* --------------------------------------------- enhanced boundary conditions
\* len(extended coords) minus one per active cantilever on that axis
ActualXCount(ex, cc) == Len(ex) - (IF Active(cc.front) THEN 1 ELSE 0)
ActualYCount(ey, cc) ==
    Len(ey) - (IF Active(cc.right) THEN 1 ELSE 0) - (IF Active(cc.left) THEN 1 ELSE 0)

\* variant: the lookup forgets y_offset
BaseNodesToFixNoOffset(mapping, ex, ey, cc) ==
    {Get(mapping, <<i, j, 0>>) :
        i \in 0..(ActualXCount(ex, cc) - 1), j \in 0..(ActualYCount(ey, cc) - 1)}
    \ {NoneVal}

\* the tags handed to ops.fix: node_mapping.get((i, j + y_offset, 0)) when present
BaseNodesToFix(mapping, ex, ey, cc) ==
    {Get(mapping, <<i, j + YOffset(cc), 0>>) :
        i \in 0..(ActualXCount(ex, cc) - 1), j \in 0..(ActualYCount(ey, cc) - 1)}
    \ {NoneVal}


\* ------------------------------------------------------ legacy generator
\* variant: rows are counted in steps of num_bay_y + 1
get_node_tag_from_indicesRowsByY(floor_idx, bay_y_idx, bay_x_idx, num_bay_x, num_bay_y) ==
    LET nodes_per_level == (num_bay_x + 1) * (num_bay_y + 1)
    IN  1 + floor_idx * nodes_per_level + bay_y_idx * (num_bay_y + 1) + bay_x_idx

\* get_node_tag_from_indices(floor_idx, bay_y_idx, bay_x_idx, num_bay_x, num_bay_y)
get_node_tag_from_indices(floor_idx, bay_y_idx, bay_x_idx, num_bay_x, num_bay_y) ==
    LET nodes_per_level == (num_bay_x + 1) * (num_bay_y + 1)
    IN  1 + floor_idx * nodes_per_level + bay_y_idx * (num_bay_x + 1) + bay_x_idx

\* x_loc = 0; for vano in range(n): x_loc += widths[vano]
RECURSIVE AccumulatedLoc(_, _)
AccumulatedLoc(widths, n) ==
    IF n = 0 THEN 0 ELSE AccumulatedLoc(widths, n - 1) + At(widths, n - 1)

\* if k == 0: ops.fix(node_tag, 1, 1, 1, 1, 1, 1)
LegacyFixes(k) == k = 0

\* one iteration of the k/j/i loop of create_nodes (k outermost, then j, then i)
CreateNodesBody(st, p, gd) ==
    LET npl == (gd.num_bay_x + 1) * (gd.num_bay_y + 1)
        k == p \div npl
        j == (p % npl) \div (gd.num_bay_x + 1)
        i == p % (gd.num_bay_x + 1)
        x_loc == AccumulatedLoc(gd.bay_widths_x, i)
        y_loc == AccumulatedLoc(gd.bay_widths_y, j)
        z_loc == AccumulatedLoc(gd.story_heights, k)
    IN  [node_tag |-> st.node_tag + 1,
         total_nodos |-> st.total_nodos + 1,
         nodes |-> Put(st.nodes, st.node_tag, <<x_loc, y_loc, z_loc>>),
         fixed |-> IF LegacyFixes(k) THEN st.fixed \cup {st.node_tag} ELSE st.fixed,
         index |-> Put(st.index, st.node_tag, <<i, j, k>>),
         order |-> Append(st.order, st.node_tag)]

\* variant: range(num_floor) instead of range(num_floor + 1)
CreateNodesIterationsNoRoof(gd) ==
    gd.num_floor * (gd.num_bay_x + 1) * (gd.num_bay_y + 1)

\* iterations of the k/j/i loop: range(num_floor + 1) x range(num_bay_y + 1) x
\* range(num_bay_x + 1)
CreateNodesIterations(gd) ==
    (gd.num_floor + 1) * (gd.num_bay_x + 1) * (gd.num_bay_y + 1)

\* story_heights[piso], bay_widths_y[vano], bay_widths_x[vano] with an index
\* past the end of the list: IndexError, raised before the node of iteration p
CreateNodesRaises(p, gd) ==
    LET npl == (gd.num_bay_x + 1) * (gd.num_bay_y + 1)
        k == p \div npl
        j == (p % npl) \div (gd.num_bay_x + 1)
        i == p % (gd.num_bay_x + 1)
    IN  k > Len(gd.story_heights) \/ j > Len(gd.bay_widths_y) \/ i > Len(gd.bay_widths_x)

CreateNodesRaised(gd) ==
    \E p \in 0..(CreateNodesIterations(gd) - 1) : CreateNodesRaises(p, gd)

RECURSIVE CreateNodesLoop(_, _, _)
CreateNodesLoop(st, p, gd) ==
    IF p >= CreateNodesIterations(gd) \/ CreateNodesRaises(p, gd) THEN st
    ELSE LET nxt == CreateNodesBody(st, p, gd)
         IN  IF nxt.node_tag >= st.node_tag THEN CreateNodesLoop(nxt, p + 1, gd)
             ELSE nxt

\* one iteration of the k/i/j loop of create_columns
CreateColumnsBody(st, p, gd) ==
    LET npl == (gd.num_bay_x + 1) * (gd.num_bay_y + 1)
        k == p \div npl
        i == (p % npl) \div (gd.num_bay_y + 1)
        j == p % (gd.num_bay_y + 1)
        node_tag1 == 1 + k * npl + j * (gd.num_bay_x + 1) + i
        node_tag2 == node_tag1 + npl
    IN  [element_id |-> st.element_id + 1,
         ids |-> Append(st.ids, st.element_id),
         elements |-> Put(st.elements, st.element_id,
                          ElasticBeamColumn(node_tag1, node_tag2, NoneVal, 1)),
         order |-> Append(st.order, st.element_id)]

RECURSIVE CreateColumnsLoop(_, _, _)
CreateColumnsLoop(st, p, gd) ==
    IF p >= gd.num_floor * (gd.num_bay_x + 1) * (gd.num_bay_y + 1) THEN st
    ELSE LET nxt == CreateColumnsBody(st, p, gd)
         IN  IF nxt.element_id >= st.element_id THEN CreateColumnsLoop(nxt, p + 1, gd)
             ELSE nxt

\* X beams of create_beams: for k in 1..num_floor: for j: for i in range(num_bay_x);
\* the endpoints are consecutive tags of one row
LegacyXCandidates(gd) ==
    [p \in 1..(gd.num_floor * (gd.num_bay_y + 1) * gd.num_bay_x) |->
        LET perLevel == (gd.num_bay_y + 1) * gd.num_bay_x
            npl == (gd.num_bay_x + 1) * (gd.num_bay_y + 1)
            k == 1 + (p - 1) \div perLevel
            j == ((p - 1) % perLevel) \div gd.num_bay_x
            i == (p - 1) % gd.num_bay_x
            node_tag1 == (1 + k * npl) + j * (gd.num_bay_x + 1) + i
        IN  Candidate(node_tag1, node_tag1 + 1, "Y", NoneVal, 2, "x")]

\* Y beams of create_beams: for k: for i: for j in range(num_bay_y);
\* the endpoints are one row apart
LegacyYCandidates(gd) ==
    [p \in 1..(gd.num_floor * (gd.num_bay_x + 1) * gd.num_bay_y) |->
        LET perLevel == (gd.num_bay_x + 1) * gd.num_bay_y
            npl == (gd.num_bay_x + 1) * (gd.num_bay_y + 1)
            k == 1 + (p - 1) \div perLevel
            i == ((p - 1) % perLevel) \div gd.num_bay_y
            j == (p - 1) % gd.num_bay_y
            node_tag1 == (1 + k * npl) + j * (gd.num_bay_x + 1) + i
        IN  Candidate(node_tag1, node_tag1 + (gd.num_bay_x + 1), "X", NoneVal, 2, "y")]

\* if node_tag1 <= total_nodes and node_tag2 <= total_nodes: if <orthogonal>: create
TryLegacyBeam(st, c, total, nodes) ==
    IF c.a <= total /\ c.b <= total
    THEN IF SameLine(c.line, nodes[c.a], nodes[c.b])
         THEN AddBeam(st, c, c.a, c.b)
         ELSE st
    ELSE st

\* print("Saltando viga diagonal ...") and print("ERROR: Nodos ... no existen"):
\* create_beams prints one message per candidate it does not create
LegacyBeamSkipMessages(cands, total, nodes) ==
    Cardinality({n \in 1..Len(cands) :
        IF cands[n].a <= total /\ cands[n].b <= total
        THEN ~SameLine(cands[n].line, nodes[cands[n].a], nodes[cands[n].b])
        ELSE TRUE})

\* main.py: restricted_nodes counts the node tags with coord[2] < 0.01
BaseZTol == 10
StandardRestrictedNodes(nodes) ==
    Cardinality({t \in DOMAIN nodes : nodes[t][3] < BaseZTol})

\* ops.node(tag, ...) on a tag the engine already holds raises
NodeTagTaken(nodes, tag) == tag \in DOMAIN nodes

RECURSIVE LegacyBeamLoop(_, _, _, _, _)
LegacyBeamLoop(st, cands, n, total, nodes) ==
    IF n > Len(cands) THEN st
    ELSE LET nxt == TryLegacyBeam(st, cands[n], total, nodes)
         IN  IF nxt.element_id >= st.element_id
             THEN LegacyBeamLoop(nxt, cands, n + 1, total, nodes)
             ELSE nxt

\* --------------------------------------------------------------- slabs
\* ops.element('ShellMITC4', tag, n1, n2, n3, n4, 1): the section tag is 1
ShellMITC4(n1, n2, n3, n4) == [nodes |-> <<n1, n2, n3, n4>>, sec |-> 1]

\* the engine refuses an element on a node it does not hold, or on an element
\* tag it already holds; create_slabs catches the exception and goes on
ShellRefused(tag, corners, nodes, elements, shells) ==
    \/ \E n \in Range(corners) : n \notin DOMAIN nodes
    \/ tag \in DOMAIN elements
    \/ tag \in DOMAIN shells

\* variant: slab_elements_ids.append(ele_tag) comes after ele_tag += 1
SlabLoopBodyAppendsLate(st, p, gd, nodes, elements) ==
    LET perLevel == gd.num_bay_y * gd.num_bay_x
        k == 1 + p \div perLevel
        j_bay == (p % perLevel) \div gd.num_bay_x
        i_bay == p % gd.num_bay_x
        node1_tag == get_node_tag_from_indices(k, j_bay, i_bay, gd.num_bay_x, gd.num_bay_y)
        node2_tag == get_node_tag_from_indices(k, j_bay, i_bay + 1, gd.num_bay_x,
                                               gd.num_bay_y)
        node3_tag == get_node_tag_from_indices(k, j_bay + 1, i_bay + 1, gd.num_bay_x,
                                               gd.num_bay_y)
        node4_tag == get_node_tag_from_indices(k, j_bay + 1, i_bay, gd.num_bay_x,
                                               gd.num_bay_y)
        corners == <<node1_tag, node2_tag, node3_tag, node4_tag>>
        total == (gd.num_bay_x + 1) * (gd.num_bay_y + 1) * (gd.num_floor + 1)
    IN  IF /\ \A n \in Range(corners) : n <= total
           /\ ~ShellRefused(st.ele_tag, corners, nodes, elements, st.shells)
        THEN [ele_tag |-> st.ele_tag + 1,
              total_slabs_elements |-> st.total_slabs_elements + 1,
              ids |-> Append(st.ids, st.ele_tag + 1),
              shells |-> Put(st.shells, st.ele_tag,
                             ShellMITC4(node1_tag, node2_tag, node3_tag, node4_tag))]
        ELSE st

\* one bay of the k/j_bay/i_bay loop of create_slabs (one shell per bay: only
\* the sub_i = sub_j = 0 pass of the mesh loops creates an element)
SlabLoopBody(st, p, gd, nodes, elements) ==
    LET perLevel == gd.num_bay_y * gd.num_bay_x
        k == 1 + p \div perLevel
        j_bay == (p % perLevel) \div gd.num_bay_x
        i_bay == p % gd.num_bay_x
        node1_tag == get_node_tag_from_indices(k, j_bay, i_bay, gd.num_bay_x, gd.num_bay_y)
        node2_tag == get_node_tag_from_indices(k, j_bay, i_bay + 1, gd.num_bay_x,
                                               gd.num_bay_y)
        node3_tag == get_node_tag_from_indices(k, j_bay + 1, i_bay + 1, gd.num_bay_x,
                                               gd.num_bay_y)
        node4_tag == get_node_tag_from_indices(k, j_bay + 1, i_bay, gd.num_bay_x,
                                               gd.num_bay_y)
        corners == <<node1_tag, node2_tag, node3_tag, node4_tag>>
        total == (gd.num_bay_x + 1) * (gd.num_bay_y + 1) * (gd.num_floor + 1)
    IN  IF /\ \A n \in Range(corners) : n <= total
           /\ ~ShellRefused(st.ele_tag, corners, nodes, elements, st.shells)
        THEN [ele_tag |-> st.ele_tag + 1,
              total_slabs_elements |-> st.total_slabs_elements + 1,
              ids |-> Append(st.ids, st.ele_tag),
              shells |-> Put(st.shells, st.ele_tag,
                             ShellMITC4(node1_tag, node2_tag, node3_tag, node4_tag))]
        ELSE st

RECURSIVE SlabLoop(_, _, _, _, _)
SlabLoop(st, p, gd, nodes, elements) ==
    IF p >= gd.num_floor * gd.num_bay_y * gd.num_bay_x THEN st
    ELSE LET nxt == SlabLoopBody(st, p, gd, nodes, elements)
         IN  IF nxt.ele_tag >= st.ele_tag THEN SlabLoop(nxt, p + 1, gd, nodes, elements)
             ELSE nxt

\* --------------------------------------------------------------- loads
\* get_load_intensities(interactive=False): dead_load_slab = 4.0 + 5.0 and
\* live_load_slab = 2.0 kN/m2; dead_load_beam = 1.0 and live_load_beam = 0.5 kN/m,
\* kept in N/m
dead_load_slab == 9
live_load_slab == 2
dead_load_beam == 1000
live_load_beam == 500

\* bay_widths[0], bay_widths[-1] on an empty list, bay_widths[bay] past the end
TributaryRaises(widths, bay) == Len(widths) = 0 \/ bay > Len(widths)

\* variant: an edge position takes its whole bay
TributaryWidthWholeEdge(widths, bay) ==
    IF bay = 0 THEN At(widths, 0)
    ELSE IF bay = Len(widths) THEN At(widths, Len(widths) - 1)
    ELSE (At(widths, bay - 1) + At(widths, bay)) \div 2

\* width_x / width_y of calculate_tributary_area: half the first or last bay at
\* the edges, half the sum of the two adjacent bays inside (widths are even
\* numbers of millimetres, so the halves are exact)
TributaryWidth(widths, bay) ==
    IF bay = 0 THEN At(widths, 0) \div 2
    ELSE IF bay = Len(widths) THEN At(widths, Len(widths) - 1) \div 2
    ELSE (At(widths, bay - 1) + At(widths, bay)) \div 2

\* areas are kept in dm2: every bay width and every tributary width is a whole
\* number of decimetres
AreaUnit == 100

\* calculate_tributary_area(geometry_data, bay_i, bay_j), in dm2
calculate_tributary_area(gd, bay_i, bay_j) ==
    (TributaryWidth(gd.bay_widths_x, bay_i) \div AreaUnit)
        * (TributaryWidth(gd.bay_widths_y, bay_j) \div AreaUnit)

NodalLoad(pattern, node_tag, value) ==
    [pattern |-> pattern, kind |-> "node", tag |-> node_tag, value |-> value]

EleLoad(pattern, ele_id, value) ==
    [pattern |-> pattern, kind |-> "ele", tag |-> ele_id, value |-> value]

\* the floor/j/i loop of apply_dead_loads and apply_live_loads: position p
SlabLoadIndex(p, gd) ==
    LET perFloor == (gd.num_bay_y + 1) * (gd.num_bay_x + 1)
    IN  [floor |-> 1 + p \div perFloor,
         j |-> (p % perFloor) \div (gd.num_bay_x + 1),
         i |-> p % (gd.num_bay_x + 1)]

\* the iteration raises: calculate_tributary_area indexes past a list, or the
\* engine refuses ops.load on a node it does not hold
SlabLoadRaises(p, gd, nodes) ==
    LET ix == SlabLoadIndex(p, gd)
    IN  \/ TributaryRaises(gd.bay_widths_x, ix.i)
        \/ TributaryRaises(gd.bay_widths_y, ix.j)
        \/ get_node_tag_from_indices(ix.floor, ix.j, ix.i, gd.num_bay_x, gd.num_bay_y)
               \notin DOMAIN nodes

SlabLoadIterations(gd) == gd.num_floor * (gd.num_bay_y + 1) * (gd.num_bay_x + 1)

\* apply_dead_loads / apply_live_loads: the loads applied before the loop ends
\* or raises
RECURSIVE SlabLoadLoop(_, _, _, _, _, _)
SlabLoadLoop(applied, p, gd, nodes, pattern, intensity) ==
    IF p >= SlabLoadIterations(gd) \/ SlabLoadRaises(p, gd, nodes) THEN applied
    ELSE LET ix == SlabLoadIndex(p, gd)
             node_tag == get_node_tag_from_indices(ix.floor, ix.j, ix.i, gd.num_bay_x,
                                                   gd.num_bay_y)
             point_load == intensity * calculate_tributary_area(gd, ix.i, ix.j)
             nxt == Append(applied, NodalLoad(pattern, node_tag, point_load))
         IN  IF Len(nxt) > Len(applied)
             THEN SlabLoadLoop(nxt, p + 1, gd, nodes, pattern, intensity)
             ELSE nxt

SlabLoadsRaised(gd, nodes) ==
    \E p \in 0..(SlabLoadIterations(gd) - 1) : SlabLoadRaises(p, gd, nodes)

\* apply_beam_loads: one ops.eleLoad per X beam, then per Y beam (an element the
\* engine does not hold makes the call raise; the exception is caught)
BeamLoads(pattern, ids_x, ids_y, elements, value) ==
    LET ids == ids_x \o ids_y
        held == SelectSeq(ids, LAMBDA e : e \in DOMAIN elements)
    IN  [n \in 1..Len(held) |-> EleLoad(pattern, held[n], value)]

\* sum(bay_widths): Python's sum over the list
RECURSIVE sum(_)
sum(widths) == IF Len(widths) = 0 THEN 0 ELSE widths[1] + sum(Tail(widths))

\* total_dead_load = dead_load_slab * sum(bay_widths_x) * sum(bay_widths_y) *
\* num_floor
ReportedTotalDeadLoad(gd) ==
    dead_load_slab * (sum(gd.bay_widths_x) \div AreaUnit)
        * (sum(gd.bay_widths_y) \div AreaUnit) * gd.num_floor

\* ------------------------------------------------------------------ Init
\* nothing has run yet
NoRun ==
    [nodes |-> EmptyMap, fixed |-> {}, elements |-> EmptyMap,
     node_order |-> <<>>, ele_order |-> <<>>]

CantileverConfigs ==
    [front : {NoneVal} \cup CantileverLengths,
     right : {NoneVal} \cup CantileverLengths,
     left  : {NoneVal} \cup CantileverLengths]

AnyCantilever(cc) == Active(cc.front) \/ Active(cc.right) \/ Active(cc.left)

\* no configuration file was named
NoFile ==
    [readable |-> FALSE, has_keys |-> FALSE,
     data |-> [num_bay_x |-> 0, num_bay_y |-> 0, num_floor |-> 0,
               bay_widths_x |-> <<>>, bay_widths_y |-> <<>>, story_heights |-> <<>>]]

\* the solver has not been called: no thread, no status, no result
SolverIdle ==
    /\ worker = "idle"
    /\ stale_workers = 0
    /\ status = "NONE"
    /\ analysis_successful = "unset"
    /\ analysis_success = "unset"
    /\ caller = "main"
    /\ steps = <<>>
    /\ combo_i = 0
    /\ all_results = {}
    /\ successful_analyses = 0
    /\ outcomes = <<>>
    /\ multi_returned = "not_called"
    /\ concurrent_engine_use = FALSE

\* empty engine, no output yet, idle solver
FreshEngine ==
    /\ run = 1
    /\ ops_shells = EmptyMap
    /\ ops_loads = <<>>
    /\ slab_elements_ids = <<>>
    /\ next_ele_tag_after_slabs = 1
    /\ total_dead_load = 0
    /\ ignored_duplicates = 0
    /\ SolverIdle
    /\ ops_nodes = EmptyMap
    /\ ops_fixed = {}
    /\ ops_elements = EmptyMap
    /\ ops_sections = EmptyMap
    /\ node_index = EmptyMap
    /\ node_order = <<>>
    /\ ele_order = <<>>
    /\ total_nodes = 0
    /\ node_mapping = EmptyMap
    /\ extended_x_coords = <<>>
    /\ extended_y_coords = <<>>
    /\ z_coords = <<>>
    /\ column_elements_ids = <<>>
    /\ beam_elements_x_ids = <<>>
    /\ beam_elements_y_ids = <<>>
    /\ cantilever_beam_ids = <<>>
    /\ next_ele_tag = 1
    /\ restricted_nodes = PyNone
    /\ skip_log = 0
    /\ first_run = NoRun

\* a fresh process: empty engine, no output yet
FreshProcess ==
    /\ pc = "start"
    /\ FreshEngine
    /\ config_file = NoFile
    /\ config_error = FALSE
    /\ selected_combinations = <<>>

\* the configurations main.py and the test scripts build: validated geometry,
\* positive lengths, every custom group filled in by advanced_config
Init ==
    /\ \E nx \in 1..MaxBayX, ny \in 1..MaxBayY, nf \in 1..MaxFloor :
         \E wx \in WidthProfiles(nx), wy \in WidthProfiles(ny),
            hz \in HeightProfiles(nf), hasCC \in BOOLEAN :
            geometry_data = [num_bay_x |-> nx, num_bay_y |-> ny, num_floor |-> nf,
                             bay_widths_x |-> wx, bay_widths_y |-> wy,
                             story_heights |-> hz,
                             has_cantilever_config |-> hasCC]
    /\ cantilever_config \in CantileverConfigs
    /\ column_config \in {"uniform", "exterior_interior", "custom_groups"}
    /\ column_groups = IF column_config = "custom_groups"
                       THEN AllGroupIds(geometry_data) ELSE {}
    /\ use_enhanced \in BOOLEAN
    /\ AnyCantilever(cantilever_config) => use_enhanced
    /\ FreshProcess

\* --------------------------------------------------------------- actions
\* ops.wipe(); ops.model(...): the engine is emptied before each run
Wipe ==
    /\ pc = "start"
    /\ pc' = "model"
    /\ ops_nodes' = EmptyMap
    /\ ops_fixed' = {}
    /\ ops_elements' = EmptyMap
    /\ ops_sections' = EmptyMap
    /\ node_index' = EmptyMap
    /\ node_order' = <<>>
    /\ ele_order' = <<>>
    /\ ops_shells' = EmptyMap
    /\ ops_loads' = <<>>
    /\ UNCHANGED <<config, post, run, nodeOut, eleOut, audit, first_run>>

GenerateEnhancedNodes ==
    /\ pc = "model"
    /\ use_enhanced
    /\ IF NodeTagTaken(ops_nodes, 1)
       THEN \* the first ops.node call raises: nothing is returned
            /\ pc' = "error"
            /\ UNCHANGED <<ops_nodes, node_index, node_order, nodeOut>>
       ELSE LET xc == x_coords
                yc == y_coords
                zc == CumulativeCoords(geometry_data.story_heights)
                ex == ExtendedX(xc, cantilever_config)
                ey == ExtendedY(yc, cantilever_config)
                st == NodeLoop(EnhancedNodeStart, 0, ex, ey, zc, Len(xc), Len(yc),
                               cantilever_config)
            IN  /\ ops_nodes' = st.nodes
                /\ node_index' = st.index
                /\ node_order' = st.order
                /\ node_mapping' = st.mapping
                /\ total_nodes' = st.node_id - 1
                /\ extended_x_coords' = ex
                /\ extended_y_coords' = ey
                /\ z_coords' = zc
                /\ pc' = "nodes"
    /\ UNCHANGED <<config, post, slabEngine, run, ops_fixed, ops_elements, ops_sections, ele_order, eleOut,
                   audit, first_run>>

GenerateEnhancedColumnElements ==
    /\ pc = "nodes"
    /\ use_enhanced
    /\ LET oxc == Len(geometry_data.bay_widths_x) + 1
           oyc == Len(geometry_data.bay_widths_y) + 1
           secs == DefineSections(ops_sections, ColumnSectionTags(column_config),
                                  "column")
           st == ColumnLoop([element_id |-> 1, ids |-> <<>>,
                             elements |-> ops_elements, order |-> ele_order,
                             raised |-> FALSE],
                            0, Len(z_coords) - 1, oxc, oyc, node_mapping,
                            ColumnYOffset(geometry_data, cantilever_config),
                            column_config, secs)
       IN  /\ ops_sections' = secs
           /\ ops_elements' = st.elements
           /\ ele_order' = st.order
           /\ IF st.raised
              THEN \* the exception leaves the function: no return value
                   /\ pc' = "error"
                   /\ UNCHANGED <<column_elements_ids, next_ele_tag>>
              ELSE /\ pc' = "columns"
                   /\ column_elements_ids' = st.ids
                   /\ next_ele_tag' = st.element_id
    /\ UNCHANGED <<config, post, slabEngine, run, ops_nodes, ops_fixed, node_index, node_order, nodeOut,
                   beam_elements_x_ids, beam_elements_y_ids, cantilever_beam_ids,
                   audit, first_run>>

GenerateEnhancedBeamElements ==
    /\ pc = "columns"
    /\ use_enhanced
    /\ LET oxc == Len(geometry_data.bay_widths_x) + 1
           oyc == Len(geometry_data.bay_widths_y) + 1
           beam_section_tag == BeamSectionTag(ops_sections)
           withBeam == DefineSection(ops_sections, beam_section_tag, "beam")
           withFront == IF Active(cantilever_config.front)
                        THEN DefineSection(withBeam, 101, "cantilever") ELSE withBeam
           withRight == IF Active(cantilever_config.right)
                        THEN DefineSection(withFront, 102, "cantilever") ELSE withFront
           withLeft == IF Active(cantilever_config.left)
                       THEN DefineSection(withRight, 103, "cantilever") ELSE withRight
           cands == AllCandidates(1, Len(z_coords), oxc, oyc, Len(extended_x_coords),
                                  Len(extended_y_coords), cantilever_config,
                                  beam_section_tag)
           st == BeamLoop([element_id |-> next_ele_tag, x_ids |-> <<>>, y_ids |-> <<>>,
                           c_ids |-> <<>>, elements |-> ops_elements,
                           order |-> ele_order],
                          cands, 1, node_mapping, ops_nodes)
       IN  /\ ops_sections' = withLeft
           /\ ops_elements' = st.elements
           /\ ele_order' = st.order
           /\ beam_elements_x_ids' = st.x_ids
           /\ beam_elements_y_ids' = st.y_ids
           /\ cantilever_beam_ids' = st.c_ids
           /\ next_ele_tag' = st.element_id
           /\ skip_log' = skip_log + BeamSkipMessages(cands, node_mapping, ops_nodes)
    /\ pc' = "beams"
    /\ UNCHANGED <<config, post, slabEngine, run, ops_nodes, ops_fixed, node_index, node_order, nodeOut,
                   column_elements_ids, restricted_nodes, first_run>>

\* restricted_nodes = apply_enhanced_boundary_conditions(...): the function ends
\* without a return statement, so the caller receives None
ApplyEnhancedBoundaryConditions ==
    /\ pc = "beams"
    /\ use_enhanced
    /\ ops_fixed' = ops_fixed \cup BaseNodesToFix(node_mapping, extended_x_coords,
                                                  extended_y_coords, cantilever_config)
    /\ restricted_nodes' = PyNone
    /\ pc' = "done"
    /\ UNCHANGED <<config, post, slabEngine, run, ops_nodes, ops_elements, ops_sections, node_index,
                   node_order, ele_order, nodeOut, eleOut, skip_log, first_run>>

CreateNodes ==
    /\ pc = "model"
    /\ ~use_enhanced
    /\ IF NodeTagTaken(ops_nodes, 1)
       THEN \* the first ops.node call raises
            /\ pc' = "error"
            /\ UNCHANGED <<ops_nodes, ops_fixed, node_index, node_order, total_nodes>>
       ELSE LET st == CreateNodesLoop([node_tag |-> 1, total_nodos |-> 0,
                                       nodes |-> ops_nodes, fixed |-> ops_fixed,
                                       index |-> node_index, order |-> node_order],
                                      0, geometry_data)
                raised == CreateNodesRaised(geometry_data)
            IN  /\ ops_nodes' = st.nodes
                /\ ops_fixed' = st.fixed
                /\ node_index' = st.index
                /\ node_order' = st.order
                /\ total_nodes' = IF raised THEN total_nodes ELSE st.total_nodos
                /\ pc' = IF raised THEN "error" ELSE "nodes"
    /\ UNCHANGED <<config, post, slabEngine, run, ops_elements, ops_sections, ele_order, node_mapping,
                   extended_x_coords, extended_y_coords, z_coords, eleOut, audit,
                   first_run>>

CreateColumns ==
    /\ pc = "nodes"
    /\ ~use_enhanced
    /\ LET st == CreateColumnsLoop([element_id |-> 1, ids |-> <<>>,
                                    elements |-> ops_elements, order |-> ele_order],
                                   0, geometry_data)
       IN  /\ ops_elements' = st.elements
           /\ ele_order' = st.order
           /\ column_elements_ids' = st.ids
           /\ next_ele_tag' = st.element_id
    /\ pc' = "columns"
    /\ UNCHANGED <<config, post, slabEngine, run, ops_nodes, ops_fixed, ops_sections, node_index,
                   node_order, nodeOut, beam_elements_x_ids, beam_elements_y_ids,
                   cantilever_beam_ids, audit, first_run>>

CreateBeams ==
    /\ pc = "columns"
    /\ ~use_enhanced
    /\ LET start == [element_id |-> next_ele_tag, x_ids |-> <<>>, y_ids |-> <<>>,
                     c_ids |-> <<>>, elements |-> ops_elements, order |-> ele_order]
           afterX == LegacyBeamLoop(start, LegacyXCandidates(geometry_data), 1,
                                    total_nodes, ops_nodes)
           st == LegacyBeamLoop(afterX, LegacyYCandidates(geometry_data), 1,
                                total_nodes, ops_nodes)
       IN  /\ ops_elements' = st.elements
           /\ ele_order' = st.order
           /\ beam_elements_x_ids' = st.x_ids
           /\ beam_elements_y_ids' = st.y_ids
           /\ cantilever_beam_ids' = <<>>
           /\ next_ele_tag' = st.element_id
           /\ skip_log' = skip_log
                + LegacyBeamSkipMessages(LegacyXCandidates(geometry_data),
                                         total_nodes, ops_nodes)
                + LegacyBeamSkipMessages(LegacyYCandidates(geometry_data),
                                         total_nodes, ops_nodes)
    /\ pc' = "beams"
    /\ UNCHANGED <<config, post, slabEngine, run, ops_nodes, ops_fixed, ops_sections, node_index,
                   node_order, nodeOut, column_elements_ids, restricted_nodes, first_run>>

\* main.py, standard geometry: the restraints were applied by create_nodes; main
\* counts the nodes at the base
VerifyStandardBoundaryConditions ==
    /\ pc = "beams"
    /\ ~use_enhanced
    /\ restricted_nodes' = PyInt(StandardRestrictedNodes(ops_nodes))
    /\ pc' = "done"
    /\ UNCHANGED <<config, post, run, engine, nodeOut, eleOut, skip_log, first_run>>

\* main.py step 7: slabs.create_slabs(geometry_data, section_properties,
\* next_ele_tag_after_beams).  The plate section is declared with tag 1 inside
\* try/except: pass, so a tag 1 that exists keeps its first definition.
CreateSlabs ==
    /\ pc = "done"
    /\ LET st == SlabLoop([ele_tag |-> next_ele_tag, total_slabs_elements |-> 0,
                           ids |-> <<>>, shells |-> ops_shells],
                          0, geometry_data, ops_nodes, ops_elements)
       IN  /\ ops_sections' = DefineSection(ops_sections, 1, "slab")
           /\ ignored_duplicates' = IF 1 \in DOMAIN ops_sections
                                    THEN ignored_duplicates + 1 ELSE ignored_duplicates
           /\ ops_shells' = st.shells
           /\ slab_elements_ids' = st.ids
           /\ next_ele_tag_after_slabs' = st.ele_tag
    /\ pc' = "slabs"
    /\ UNCHANGED <<config, input, solver, run, ops_nodes, ops_fixed, ops_elements,
                   node_index, node_order, ele_order, ops_loads, nodeOut, eleOut,
                   audit, first_run, total_dead_load>>

\* main.py step 8: loads.apply_loads(...): pattern 1 with the dead loads of the
\* slabs and of the beams, pattern 2 with the live loads, then the reported
\* totals.  An exception leaves apply_loads and ends main.
ApplyLoads ==
    /\ pc = "slabs"
    /\ LET gd == geometry_data
           dead == SlabLoadLoop(ops_loads, 0, gd, ops_nodes, 1, dead_load_slab)
           deadBeams == dead \o BeamLoads(1, beam_elements_x_ids, beam_elements_y_ids,
                                          ops_elements, dead_load_beam)
           live == SlabLoadLoop(deadBeams, 0, gd, ops_nodes, 2, live_load_slab)
           liveBeams == live \o BeamLoads(2, beam_elements_x_ids, beam_elements_y_ids,
                                          ops_elements, live_load_beam)
       IN  IF SlabLoadsRaised(gd, ops_nodes)
           THEN /\ ops_loads' = dead
                /\ pc' = "error"
                /\ UNCHANGED total_dead_load
           ELSE /\ ops_loads' = liveBeams
                /\ pc' = "loads"
                /\ total_dead_load' = ReportedTotalDeadLoad(gd)
    /\ UNCHANGED <<config, input, solver, run, ops_nodes, ops_fixed, ops_elements,
                   ops_sections, node_index, node_order, ele_order, ops_shells,
                   nodeOut, eleOut, audit, first_run, slab_elements_ids,
                   next_ele_tag_after_slabs, ignored_duplicates>>

\* what a run left in the engine, in creation order
Snapshot ==
    [nodes |-> ops_nodes, fixed |-> ops_fixed, elements |-> ops_elements,
     node_order |-> node_order, ele_order |-> ele_order]

\* the driver is started again in the same process with the same configuration
StartSecondRun ==
    /\ pc = "done"
    /\ run = 1
    /\ run' = 2
    /\ pc' = "start"
    /\ first_run' = Snapshot
    /\ total_nodes' = 0
    /\ node_mapping' = EmptyMap
    /\ extended_x_coords' = <<>>
    /\ extended_y_coords' = <<>>
    /\ z_coords' = <<>>
    /\ column_elements_ids' = <<>>
    /\ beam_elements_x_ids' = <<>>
    /\ beam_elements_y_ids' = <<>>
    /\ cantilever_beam_ids' = <<>>
    /\ next_ele_tag' = 1
    /\ restricted_nodes' = PyNone
    /\ skip_log' = 0
    /\ UNCHANGED <<config, post, engine>>

Next ==
    \/ Wipe
    \/ CreateNodes
    \/ CreateColumns
    \/ CreateBeams
    \/ VerifyStandardBoundaryConditions
    \/ GenerateEnhancedNodes
    \/ GenerateEnhancedColumnElements
    \/ GenerateEnhancedBeamElements
    \/ ApplyEnhancedBoundaryConditions
    \/ CreateSlabs
    \/ ApplyLoads
    \/ StartSecondRun

Spec == Init /\ [][Next]_vars

\* ----------------------------------------- generators called by any caller
\* geometry_data, cantilever_config and column_config written by hand, as the
\* test scripts do: nothing validates them before the generators run.  Each
\* configuration departs from a valid one in at most one way.
Departures ==
    {"none", "short_x", "long_x", "short_y", "short_z", "long_z", "zero_x",
     "negative_z", "negative_front", "missing_first_group", "missing_last_group"}

Uniform(n, w) == [b \in 1..n |-> w]

WidthsX(nx, d) ==
    CASE d = "short_x" -> Uniform(nx - 1, 3000)
      [] d = "long_x"  -> Uniform(nx + 1, 3000)
      [] d = "zero_x"  -> [b \in 1..nx |-> IF b = 1 THEN 0 ELSE 3000]
      [] OTHER         -> Uniform(nx, 3000)

WidthsY(ny, d) == IF d = "short_y" THEN Uniform(ny - 1, 3000) ELSE Uniform(ny, 3000)

Heights(nf, d) ==
    CASE d = "short_z"    -> Uniform(nf - 1, 3000)
      [] d = "long_z"     -> Uniform(nf + 1, 3000)
      [] d = "negative_z" -> [b \in 1..nf |-> IF b = 1 THEN 0 - 3000 ELSE 3000]
      [] OTHER            -> Uniform(nf, 3000)

Groups(gd, d) ==
    CASE d = "missing_first_group" -> AllGroupIds(gd) \ {1}
      [] d = "missing_last_group"  ->
             AllGroupIds(gd) \ {(Len(gd.bay_widths_x) + 1) * (Len(gd.bay_widths_y) + 1)}
      [] OTHER -> {}

InitAnyCaller ==
    /\ \E nx \in 1..MaxBayX, ny \in 1..MaxBayY, nf \in 1..MaxFloor, d \in Departures :
         /\ geometry_data = [num_bay_x |-> nx, num_bay_y |-> ny, num_floor |-> nf,
                             bay_widths_x |-> WidthsX(nx, d),
                             bay_widths_y |-> WidthsY(ny, d),
                             story_heights |-> Heights(nf, d),
                             has_cantilever_config |-> TRUE]
         /\ column_config = IF d \in {"missing_first_group", "missing_last_group"}
                            THEN "custom_groups" ELSE "uniform"
         /\ column_groups = Groups(geometry_data, d)
         /\ \E cc \in CantileverConfigs :
              cantilever_config = IF d = "negative_front"
                                  THEN [cc EXCEPT !.front = 0 - 1500] ELSE cc
    /\ use_enhanced \in BOOLEAN
    /\ AnyCantilever(cantilever_config) => use_enhanced
    /\ column_config = "custom_groups" => use_enhanced
    /\ FreshProcess

\* the second run starts on the engine as the first run left it: the caller
\* did not call ops.wipe(), or the call failed and the driver went on
ModelWithoutWipe ==
    /\ pc = "start"
    /\ run = 2
    /\ pc' = "model"
    /\ UNCHANGED <<config, post, run, engine, nodeOut, eleOut, audit, first_run>>

NextAnyCaller == Next \/ ModelWithoutWipe

SpecAnyCaller == InitAnyCaller /\ [][NextAnyCaller]_vars

\* ------------------------------------------- main started on a config file
\* main.py in configuration-file mode (interactive = False, config_file named):
\* the engine is wiped, then the geometry comes from get_building_geometry_data.
\* The files are written by hand: well formed, with a list shorter or longer
\* than the declared count, without a required key, or not JSON at all.
FileDepartures ==
    {"none", "short_x", "long_x", "short_y", "short_z", "long_z", "missing_key",
     "not_json"}

ConfigFiles ==
    {[readable |-> d # "not_json", has_keys |-> d \notin {"missing_key", "not_json"},
      data |-> [num_bay_x |-> nx, num_bay_y |-> ny, num_floor |-> nf,
                bay_widths_x |-> WidthsX(nx, d), bay_widths_y |-> WidthsY(ny, d),
                story_heights |-> Heights(nf, d)]] :
        nx \in 1..MaxBayX, ny \in 1..MaxBayY, nf \in 1..MaxFloor, d \in FileDepartures}

\* geometry_data before get_building_geometry_data has returned
NoGeometry ==
    [num_bay_x |-> 0, num_bay_y |-> 0, num_floor |-> 0, bay_widths_x |-> <<>>,
     bay_widths_y |-> <<>>, story_heights |-> <<>>, has_cantilever_config |-> FALSE]

\* get_default_geometry_data(): 3 x 3 bays, 3 floors
get_default_geometry_data ==
    [num_bay_x |-> 3, num_bay_y |-> 3, num_floor |-> 3,
     bay_widths_x |-> <<5000, 6000, 5000>>, bay_widths_y |-> <<4000, 5000, 4000>>,
     story_heights |-> <<3000, 3000, 3000>>]

\* validate_geometry_data raises ValueError: a required key is missing or a
\* list length differs from the declared count
ValidateGeometryRaises(file) ==
    \/ ~file.has_keys
    \/ Len(file.data.bay_widths_x) # file.data.num_bay_x
    \/ Len(file.data.bay_widths_y) # file.data.num_bay_y
    \/ Len(file.data.story_heights) # file.data.num_floor

\* json.load or validate_geometry_data raises inside the try block
LoadRaises(file) == ~file.readable \/ ValidateGeometryRaises(file)

InitConfigFile ==
    /\ pc = "input"
    /\ config_file \in ConfigFiles
    /\ config_error = FALSE
    /\ geometry_data = NoGeometry
    /\ cantilever_config = [front |-> NoneVal, right |-> NoneVal, left |-> NoneVal]
    /\ column_config = "uniform"
    /\ column_groups = {}
    /\ use_enhanced = FALSE
    /\ selected_combinations = <<>>
    /\ FreshEngine

\* get_building_geometry_data(interactive=False, config_file=...): the file is
\* loaded and validated inside try/except Exception; when that raises, the
\* function prints the error and, not being interactive, returns the default
\* geometry.  main then stores the (default) advanced configuration in it.
GetBuildingGeometryData ==
    /\ pc = "input"
    /\ LET raised == LoadRaises(config_file)
           gd == IF raised THEN get_default_geometry_data ELSE config_file.data
       IN  /\ config_error' = raised
           /\ geometry_data' =
                 [num_bay_x |-> gd.num_bay_x, num_bay_y |-> gd.num_bay_y,
                  num_floor |-> gd.num_floor, bay_widths_x |-> gd.bay_widths_x,
                  bay_widths_y |-> gd.bay_widths_y,
                  story_heights |-> gd.story_heights,
                  has_cantilever_config |-> TRUE]
    /\ pc' = "model"
    /\ UNCHANGED <<cantilever_config, column_config, column_groups, use_enhanced,
                   config_file, slabOut, solver, run, engine, nodeOut, eleOut, audit,
                   first_run>>

\* main.py in configuration-file mode, through the application of the loads
NextConfigFile ==
    \/ GetBuildingGeometryData
    \/ CreateNodes
    \/ CreateColumns
    \/ CreateBeams
    \/ VerifyStandardBoundaryConditions
    \/ CreateSlabs
    \/ ApplyLoads

SpecConfigFile == InitConfigFile /\ [][NextConfigFile]_vars

\* ----------------------------------- analysis and load combinations
\* number of combinations handed to run_multi_load_combination_analysis
MaxCombos == 2

\* load_combinations.ACI_LoadCombinations: combinations and service_combinations
ACICombinations == {"U1", "U2", "U3", "U4", "U5", "U6", "U7", "S1", "S2", "S3", "S4"}

\* ids a caller may select; "X9" is not an ACI combination
SelectableIds == {"U1", "U2", "X9"}

\* the lists of 1..n selectable ids
Selections(n) == UNION {[1..m -> SelectableIds] : m \in 1..n}

\* everything the build steps produced, which the analysis steps leave alone
built == <<config, input, slabOut, run, ops_nodes, ops_fixed, ops_elements,
           ops_sections, node_index, node_order, ele_order, ops_shells, nodeOut,
           eleOut, audit, first_run>>

\* main.py driven once through model generation, slabs, loads and analysis;
\* main.py 427-452 selects the combinations (any caller of
\* run_multi_load_combination_analysis may hand it an unknown id)
InitAnalysis ==
    /\ \E front \in {NoneVal, 1000} :
          cantilever_config = [front |-> front, right |-> NoneVal, left |-> NoneVal]
    /\ geometry_data = [num_bay_x |-> 1, num_bay_y |-> 1, num_floor |-> 1,
                        bay_widths_x |-> <<4000>>, bay_widths_y |-> <<4000>>,
                        story_heights |-> <<3000>>,
                        has_cantilever_config |-> TRUE]
    /\ column_config = "uniform"
    /\ column_groups = {}
    /\ use_enhanced = AnyCantilever(cantilever_config)
    /\ pc = "start"
    /\ FreshEngine
    /\ config_file = NoFile
    /\ config_error = FALSE
    /\ selected_combinations \in Selections(MaxCombos)

\* analysis.verify_model_before_analysis: nodes, elements and at least four
\* nodes at the base level
verify_model_before_analysis(nodes, elements, shells) ==
    /\ DOMAIN nodes # {}
    /\ DOMAIN elements \cup DOMAIN shells # {}
    /\ Cardinality({t \in DOMAIN nodes : nodes[t][3] < BaseZTol}) >= 4

\* the calling thread operates the engine: it does so concurrently with a
\* worker when a thread started by analyze_with_timeout is still inside
\* ops.analyze(1)
EngineCall ==
    concurrent_engine_use' =
        (concurrent_engine_use \/ worker = "running" \/ stale_workers > 0)

\* run_analysis returns to its caller, which stores the value
Returns(value) ==
    /\ pc' = "analysed"
    /\ IF caller = "main"
       THEN analysis_successful' = value /\ UNCHANGED analysis_success
       ELSE analysis_success' = value /\ UNCHANGED analysis_successful

\* analysis.run_analysis up to thread.start(): verification, configuration of
\* the analysis objects (an exception there is caught and gives False), then
\* analyze_with_timeout starts the daemon thread and joins it
RunAnalysisBegins ==
    /\ pc \in {"loads", "combo_ready"}
    /\ EngineCall
    /\ \E raised \in BOOLEAN :
          IF raised \/ ~verify_model_before_analysis(ops_nodes, ops_elements, ops_shells)
          THEN /\ Returns("False")
               /\ UNCHANGED worker
          ELSE /\ worker' = "running"
               /\ pc' = "joining"
               /\ UNCHANGED <<analysis_successful, analysis_success>>
    /\ UNCHANGED <<built, ops_loads, stale_workers, status, caller, steps,
                   selected_combinations, combo_i, all_results, successful_analyses,
                   outcomes, multi_returned>>

\* analysis.target_function: ops.analyze(1) returns 0, returns an error code,
\* or raises; the outcome is put in result_queue or exception_queue
target_function ==
    /\ worker = "running"
    /\ worker' \in {"returned_0", "returned_fail", "raised"}
    /\ UNCHANGED <<built, ops_loads, pc, stale_workers, status, analysis_successful,
                   analysis_success, caller, steps, selected_combinations, combo_i,
                   all_results, successful_analyses, outcomes, multi_returned,
                   concurrent_engine_use>>

\* thread.join(timeout) returns with the thread finished: status SUCCESS or
\* EXCEPTION; run_analysis post-processes a result of 0 (reactions,
\* displacements, forces) and returns True unless that raises
JoinReturns ==
    /\ pc = "joining"
    /\ worker # "running"
    /\ status' = IF worker = "raised" THEN "EXCEPTION" ELSE "SUCCESS"
    /\ worker' = "idle"
    /\ IF worker = "returned_0"
       THEN /\ EngineCall
            /\ \E raised \in BOOLEAN : Returns(IF raised THEN "False" ELSE "True")
       ELSE /\ Returns("False")
            /\ UNCHANGED concurrent_engine_use
    /\ UNCHANGED <<built, ops_loads, stale_workers, caller, steps,
                   selected_combinations, combo_i, all_results, successful_analyses,
                   outcomes, multi_returned>>

\* thread.join(timeout) returns with the thread still alive: analyze_with_timeout
\* returns (None, "TIMEOUT") and run_analysis returns False; the daemon thread
\* is left inside ops.analyze(1)
JoinTimesOut ==
    /\ pc = "joining"
    /\ worker = "running"
    /\ status' = "TIMEOUT"
    /\ worker' = "idle"
    /\ stale_workers' = stale_workers + 1
    /\ Returns("False")
    /\ UNCHANGED <<built, ops_loads, caller, steps, selected_combinations, combo_i,
                   all_results, successful_analyses, outcomes, multi_returned,
                   concurrent_engine_use>>

\* a thread left behind by a timed-out join comes out of ops.analyze(1)
StaleWorkerFinishes ==
    /\ stale_workers > 0
    /\ stale_workers' = stale_workers - 1
    /\ UNCHANGED <<built, ops_loads, pc, worker, status, analysis_successful,
                   analysis_success, caller, steps, selected_combinations, combo_i,
                   all_results, successful_analyses, outcomes, multi_returned,
                   concurrent_engine_use>>

\* main.py after analysis.run_analysis(): the run ends at once when the
\* analysis failed
MainAfterAnalysisIgnoresFailure ==
    /\ pc = "analysed"
    /\ caller = "main"
    /\ \E generate_plots, perform_aci_analysis \in BOOLEAN :
          /\ steps' = <<"reports">>
                      \o (IF generate_plots THEN <<"visualization">> ELSE <<>>)
                      \o (IF perform_aci_analysis THEN <<"aci">> ELSE <<>>)
          /\ IF perform_aci_analysis
             THEN /\ caller' = "combination"
                  /\ combo_i' = 1
                  /\ multi_returned' = "running"
                  /\ pc' = "aci"
             ELSE /\ pc' = "ended"
                  /\ UNCHANGED <<caller, combo_i, multi_returned>>
    /\ EngineCall
    /\ UNCHANGED <<built, ops_loads, worker, stale_workers, status,
                   analysis_successful, analysis_success, selected_combinations,
                   all_results, successful_analyses, outcomes>>

\* main.py 347-471 after analysis.run_analysis(): return when it gave False;
\* otherwise the reports, the visualization when plots are wanted, and the ACI
\* load-combination analysis when it is wanted
MainAfterAnalysis ==
    /\ pc = "analysed"
    /\ caller = "main"
    /\ IF analysis_successful # "True"
       THEN /\ pc' = "ended"
            /\ UNCHANGED <<steps, caller, combo_i, multi_returned,
                           concurrent_engine_use>>
       ELSE /\ \E generate_plots, perform_aci_analysis \in BOOLEAN :
                  /\ steps' = <<"reports">>
                              \o (IF generate_plots THEN <<"visualization">> ELSE <<>>)
                              \o (IF perform_aci_analysis THEN <<"aci">> ELSE <<>>)
                  /\ IF perform_aci_analysis
                     THEN /\ caller' = "combination"
                          /\ combo_i' = 1
                          /\ multi_returned' = "running"
                          /\ pc' = "aci"
                     ELSE /\ pc' = "ended"
                          /\ UNCHANGED <<caller, combo_i, multi_returned>>
            /\ EngineCall
    /\ UNCHANGED <<built, ops_loads, worker, stale_workers, status,
                   analysis_successful, analysis_success, selected_combinations,
                   all_results, successful_analyses, outcomes>>

\* the combination the loop is at
combination_id == selected_combinations[combo_i]

\* multi_analysis 56-58: an id that is not an ACI combination is skipped
CombinationSkipped ==
    /\ pc = "aci"
    /\ combo_i <= Len(selected_combinations)
    /\ combination_id \notin ACICombinations
    /\ outcomes' = Append(outcomes, "unknown")
    /\ combo_i' = combo_i + 1
    /\ UNCHANGED <<built, ops_loads, pc, worker, stale_workers, status,
                   analysis_successful, analysis_success, caller, steps,
                   selected_combinations, all_results, successful_analyses,
                   multi_returned, concurrent_engine_use>>

\* an exception while a combination is prepared ends the whole loop
CombinationPreparedStopsOnError ==
    /\ pc = "aci"
    /\ combo_i <= Len(selected_combinations)
    /\ combination_id \in ACICombinations
    /\ EngineCall
    /\ \E raised \in {"no", "wipeAnalysis", "apply"} :
          /\ ops_loads' = IF raised = "wipeAnalysis" THEN ops_loads ELSE <<>>
          /\ IF raised # "no"
             THEN /\ outcomes' = Append(outcomes, "exception")
                  /\ combo_i' = Len(selected_combinations) + 1
                  /\ UNCHANGED pc
             ELSE /\ pc' = "combo_ready"
                  /\ UNCHANGED <<outcomes, combo_i>>
    /\ UNCHANGED <<built, worker, stale_workers, status, analysis_successful,
                   analysis_success, caller, steps, selected_combinations,
                   all_results, successful_analyses, multi_returned>>

\* multi_analysis 63-83 and 109-111: ops.wipeAnalysis(), the load patterns are
\* removed and the factored loads applied; an exception in any of these calls
\* is caught and the loop continues with the next combination
CombinationPrepared ==
    /\ pc = "aci"
    /\ combo_i <= Len(selected_combinations)
    /\ combination_id \in ACICombinations
    /\ EngineCall
    /\ \E raised \in {"no", "wipeAnalysis", "apply"} :
          /\ ops_loads' = IF raised = "wipeAnalysis" THEN ops_loads ELSE <<>>
          /\ IF raised # "no"
             THEN /\ outcomes' = Append(outcomes, "exception")
                  /\ combo_i' = combo_i + 1
                  /\ UNCHANGED pc
             ELSE /\ pc' = "combo_ready"
                  /\ UNCHANGED <<outcomes, combo_i>>
    /\ UNCHANGED <<built, worker, stale_workers, status, analysis_successful,
                   analysis_success, caller, steps, selected_combinations,
                   all_results, successful_analyses, multi_returned>>

\* multi_analysis 86-107: after run_analysis() gave True the results are
\* extracted (extract_analysis_results gives None when reading the engine
\* raises) and stored under the combination id
CombinationAfterAnalysis ==
    /\ pc = "analysed"
    /\ caller = "combination"
    /\ IF analysis_success = "True"
       THEN /\ EngineCall
            /\ \E results \in {"None", "results"} :
                  IF results # "None"
                  THEN /\ all_results' = all_results \cup {combination_id}
                       /\ successful_analyses' = successful_analyses + 1
                       /\ outcomes' = Append(outcomes, "extracted")
                  ELSE /\ outcomes' = Append(outcomes, "no_results")
                       /\ UNCHANGED <<all_results, successful_analyses>>
       ELSE /\ outcomes' = Append(outcomes, "failed")
            /\ UNCHANGED <<all_results, successful_analyses, concurrent_engine_use>>
    /\ combo_i' = combo_i + 1
    /\ pc' = "aci"
    /\ UNCHANGED <<built, ops_loads, worker, stale_workers, status,
                   analysis_successful, analysis_success, caller, steps,
                   selected_combinations, multi_returned>>

\* multi_analysis 113-124: None when no analysis succeeded, else all_results;
\* main.py then ends
MultiAnalysisReturns ==
    /\ pc = "aci"
    /\ combo_i > Len(selected_combinations)
    /\ multi_returned' = IF successful_analyses = 0 THEN "None" ELSE "all_results"
    /\ pc' = "ended"
    /\ UNCHANGED <<built, ops_loads, worker, stale_workers, status,
                   analysis_successful, analysis_success, caller, steps,
                   selected_combinations, combo_i, all_results, successful_analyses,
                   outcomes, concurrent_engine_use>>

NextAnalysis ==
    \/ Wipe
    \/ CreateNodes
    \/ CreateColumns
    \/ CreateBeams
    \/ VerifyStandardBoundaryConditions
    \/ GenerateEnhancedNodes
    \/ GenerateEnhancedColumnElements
    \/ GenerateEnhancedBeamElements
    \/ ApplyEnhancedBoundaryConditions
    \/ CreateSlabs
    \/ ApplyLoads
    \/ RunAnalysisBegins
    \/ target_function
    \/ JoinReturns
    \/ JoinTimesOut
    \/ StaleWorkerFinishes
    \/ MainAfterAnalysis
    \/ CombinationSkipped
    \/ CombinationPrepared
    \/ CombinationAfterAnalysis
    \/ MultiAnalysisReturns

SpecAnalysis == InitAnalysis /\ [][NextAnalysis]_vars

\* ===================================================================
\* Properties
\* ===================================================================
NX == geometry_data.num_bay_x
NY == geometry_data.num_bay_y
NF == geometry_data.num_floor

RECURSIVE SumSeq(_)
SumSeq(s) == IF Len(s) = 0 THEN 0 ELSE s[1] + SumSeq(Tail(s))

\* the coordinates of the column lines of an axis with the given bay widths
PartialSums(s) == {SumSeq(SubSeq(s, 1, n)) : n \in 0..Len(s)}

CoreSpanX == SumSeq(geometry_data.bay_widths_x)
CoreSpanY == SumSeq(geometry_data.bay_widths_y)
CoreXs == PartialSums(geometry_data.bay_widths_x)
CoreYs == PartialSums(geometry_data.bay_widths_y)
LevelZs == PartialSums(geometry_data.story_heights)

Tags == DOMAIN ops_nodes

\* footprint membership by position: a cantilever node lies outside the core span
IsCantileverNode(t) ==
    \/ ops_nodes[t][1] > CoreSpanX
    \/ ops_nodes[t][2] > CoreSpanY
    \/ ops_nodes[t][2] < 0
IsCoreNode(t) == ops_nodes[t][1] \in CoreXs /\ ops_nodes[t][2] \in CoreYs
AtBase(t) == ops_nodes[t][3] = 0

EndA(e) == ops_elements[e].nodes[1]
EndB(e) == ops_elements[e].nodes[2]

AllBeamIds ==
    Range(beam_elements_x_ids) \cup Range(beam_elements_y_ids)
    \cup Range(cantilever_beam_ids)

NoCantilevers == ~AnyCantilever(cantilever_config)
AllCantilevers ==
    /\ Active(cantilever_config.front)
    /\ Active(cantilever_config.right)
    /\ Active(cantilever_config.left)

\* the nodes of the current run exist
NodesGenerated == pc \in {"nodes", "columns", "beams", "done"}
\* the boundary conditions of the current run are applied
FixApplied == pc = "done" \/ (~use_enhanced /\ pc \in {"nodes", "columns", "beams"})

\* the two ends differ in exactly one of x, y and not in z
Orthogonal(e) ==
    LET a == ops_nodes[EndA(e)]
        b == ops_nodes[EndB(e)]
    IN  /\ a[3] = b[3]
        /\ (a[1] # b[1]) # (a[2] # b[2])

\* C1: every beam in the returned beam lists (X, Y, cantilever connector and
\* border beams, both generators) joins two nodes of one level that differ in
\* exactly one horizontal axis: never diagonal, never inclined
C1_BeamsOrthogonal ==
    \A e \in AllBeamIds :
        /\ e \in DOMAIN ops_elements
        /\ Orthogonal(e)
        /\ node_index[EndA(e)][3] = node_index[EndB(e)][3]

C1_Witness ==
    /\ pc = "done"
    /\ AllCantilevers
    /\ NX = 2 /\ NY = 2
    /\ Len(beam_elements_x_ids) > 0
    /\ Len(beam_elements_y_ids) > 0
    /\ Len(cantilever_beam_ids) > 0

\* C2: after node generation and boundary application the fixed nodes are
\* exactly the core nodes at level 0: (nx+1)*(ny+1) of them, none above the
\* base and none on a cantilever, whatever cantilevers are active
C2_FixedIsCoreBase ==
    FixApplied =>
        /\ ops_fixed = {t \in Tags : AtBase(t) /\ IsCoreNode(t)}
        /\ Cardinality(ops_fixed) = (NX + 1) * (NY + 1)
        /\ \A t \in ops_fixed : AtBase(t) /\ ~IsCantileverNode(t)

C2_Witness ==
    /\ pc = "done"
    /\ use_enhanced
    /\ Active(cantilever_config.left)
    /\ Cardinality(ops_fixed) = (NX + 1) * (NY + 1)

\* the horizontal positions a cantilever node may take: one per core row in the
\* front column, one per core column in the right and in the left row
CantileverPositions ==
    (IF Active(cantilever_config.front)
     THEN {<<CoreSpanX + cantilever_config.front, y>> : y \in CoreYs} ELSE {})
    \cup (IF Active(cantilever_config.right)
          THEN {<<x, CoreSpanY + cantilever_config.right>> : x \in CoreXs} ELSE {})
    \cup (IF Active(cantilever_config.left)
          THEN {<<x, 0 - cantilever_config.left>> : x \in CoreXs} ELSE {})

CantileverXYAt(z) ==
    {<<ops_nodes[t][1], ops_nodes[t][2]>> :
        t \in {u \in Tags : ops_nodes[u][3] = z /\ IsCantileverNode(u)}}

\* C3: generate_enhanced_nodes creates no cantilever node at level 0 and, at
\* every level >= 1, a node at each cantilever position: the cantilever
\* positions of all levels >= 1 are the same
C3_CantileverFromLevelOne ==
    (use_enhanced /\ NodesGenerated) =>
        /\ CantileverXYAt(0) = {}
        /\ \A z \in LevelZs \ {0} : CantileverXYAt(z) = CantileverPositions
        /\ \A t \in Tags : ops_nodes[t][3] \in LevelZs

C3_Witness ==
    /\ use_enhanced
    /\ pc = "nodes"
    /\ AllCantilevers
    /\ NF = 2
    /\ \E t \in Tags : IsCantileverNode(t) /\ node_index[t][3] = 2

\* C4: without cantilevers both node generators create (nx+1)*(ny+1) nodes at
\* each level 0..num_floor and return (num_floor+1)*(nx+1)*(ny+1)
C4_CoreNodeCount ==
    (NoCantilevers /\ NodesGenerated) =>
        /\ \A k \in 0..NF :
              Cardinality({t \in Tags : node_index[t][3] = k}) = (NX + 1) * (NY + 1)
        /\ \A t \in Tags : node_index[t][3] \in 0..NF
        /\ total_nodes = (NF + 1) * (NX + 1) * (NY + 1)
        /\ Cardinality(Tags) = total_nodes

C4_Witness ==
    /\ NoCantilevers
    /\ ~use_enhanced
    /\ pc = "nodes"
    /\ NX = 2 /\ NY = 1 /\ NF = 2
    /\ total_nodes = 18

\* C5: the index -> tag map of generate_enhanced_nodes is a bijection between
\* the index triples of the created nodes and the tags 1..total_nodes
C5_MappingBijection ==
    (use_enhanced /\ NodesGenerated) =>
        /\ \A a, b \in DOMAIN node_mapping :
              node_mapping[a] = node_mapping[b] => a = b
        /\ {node_mapping[a] : a \in DOMAIN node_mapping} = 1..total_nodes
        /\ Tags = 1..total_nodes
        /\ \A a \in DOMAIN node_mapping : node_index[node_mapping[a]] = a

C5_Witness ==
    /\ use_enhanced
    /\ pc = "nodes"
    /\ Active(cantilever_config.front)
    /\ Active(cantilever_config.left)
    /\ total_nodes > (NF + 1) * (NX + 1) * (NY + 1)

\* z coordinate of level k
LevelZ(k) == SumSeq(SubSeq(geometry_data.story_heights, 1, k))

ColumnsGenerated == pc \in {"columns", "beams", "done"}

\* the two end positions of element e
Ends(e) == <<ops_nodes[EndA(e)], ops_nodes[EndB(e)]>>
EndsOf(ids) == {Ends(e) : e \in Range(ids)}

\* C6: the column connector creates exactly one column per story and core
\* position, from the core node at level k to the core node at the same
\* position at level k+1: num_floor*(nx+1)*(ny+1) columns, none of them with a
\* cantilever node as an end, for every cantilever combination
C6_OneColumnPerStoryAndPosition ==
    ColumnsGenerated =>
        /\ Len(column_elements_ids) = NF * (NX + 1) * (NY + 1)
        /\ Cardinality(Range(column_elements_ids)) = Len(column_elements_ids)
        /\ EndsOf(column_elements_ids) =
              {<<<<x, y, LevelZ(k)>>, <<x, y, LevelZ(k + 1)>>>> :
                  x \in CoreXs, y \in CoreYs, k \in 0..(NF - 1)}
        /\ \A e \in Range(column_elements_ids) :
              ~IsCantileverNode(EndA(e)) /\ ~IsCantileverNode(EndB(e))

\* level (loop index k) of the first end of element e
LevelOf(e) == node_index[EndA(e)][3]

\* C7: without cantilevers both generators create beams at levels >= 1 only,
\* nx*(ny+1) X beams and (nx+1)*ny Y beams per level, each between
\* index-adjacent nodes, and the elements are the columns plus these beams
\* (Scenario A: 18 nodes, 9 columns, 12 beams, 21 elements, 9 fixed nodes)
C7_CoreBeams ==
    (NoCantilevers /\ pc = "done") =>
        /\ \A e \in AllBeamIds : LevelOf(e) >= 1
        /\ \A k \in 1..NF :
              /\ Cardinality({e \in Range(beam_elements_x_ids) : LevelOf(e) = k})
                    = NX * (NY + 1)
              /\ Cardinality({e \in Range(beam_elements_y_ids) : LevelOf(e) = k})
                    = (NX + 1) * NY
        /\ \A e \in Range(beam_elements_x_ids) :
              node_index[EndB(e)] = <<node_index[EndA(e)][1] + 1, node_index[EndA(e)][2],
                                      node_index[EndA(e)][3]>>
        /\ \A e \in Range(beam_elements_y_ids) :
              node_index[EndB(e)] = <<node_index[EndA(e)][1], node_index[EndA(e)][2] + 1,
                                      node_index[EndA(e)][3]>>
        /\ Len(beam_elements_x_ids) = NF * NX * (NY + 1)
        /\ Len(beam_elements_y_ids) = NF * (NX + 1) * NY
        /\ Len(cantilever_beam_ids) = 0
        /\ Cardinality(DOMAIN ops_elements) =
              Len(column_elements_ids) + Len(beam_elements_x_ids)
              + Len(beam_elements_y_ids)
        /\ (NX = 2 /\ NY = 2 /\ NF = 1) =>
              /\ total_nodes = 18
              /\ Len(column_elements_ids) = 9
              /\ Len(beam_elements_x_ids) = 6
              /\ Len(beam_elements_y_ids) = 6
              /\ Cardinality(DOMAIN ops_elements) = 21
              /\ Cardinality(ops_fixed) = 9

C7_Witness ==
    /\ NoCantilevers
    /\ ~use_enhanced
    /\ pc = "done"
    /\ NX = 2 /\ NY = 2 /\ NF = 1
    /\ Cardinality(DOMAIN ops_elements) = 21

FrontOnly ==
    /\ Active(cantilever_config.front)
    /\ ~Active(cantilever_config.right)
    /\ ~Active(cantilever_config.left)

NoCantileverConfig == [front |-> NoneVal, right |-> NoneVal, left |-> NoneVal]

\* what the enhanced generator produces for the same geometry without cantilevers
BaselineNodes ==
    LET zc == CumulativeCoords(geometry_data.story_heights)
    IN  NodeLoop([node_id |-> 1, mapping |-> EmptyMap, nodes |-> EmptyMap,
                  index |-> EmptyMap, order |-> <<>>],
                 0, x_coords, y_coords, zc, Len(x_coords), Len(y_coords),
                 NoCantileverConfig)

BaselineBeams ==
    LET zc == CumulativeCoords(geometry_data.story_heights)
        base == BaselineNodes
        st == BeamLoop([element_id |-> 1, x_ids |-> <<>>, y_ids |-> <<>>,
                        c_ids |-> <<>>, elements |-> EmptyMap, order |-> <<>>],
                       AllCandidates(1, Len(zc), Len(x_coords), Len(y_coords),
                                     Len(x_coords), Len(y_coords), NoCantileverConfig, 2),
                       1, base.mapping, base.nodes)
    IN  {<<base.nodes[st.elements[e].nodes[1]], base.nodes[st.elements[e].nodes[2]]>> :
            e \in DOMAIN st.elements}

FrontX == CoreSpanX + cantilever_config.front

\* C8: with only a front cantilever, against the same geometry without
\* cantilevers: level 0 has the same nodes and the same fixed nodes; each level
\* >= 1 gains ny+1 nodes (one per core row), ny+1 connector beams (last core
\* node of the row to its cantilever node) and ny border beams between adjacent
\* cantilever nodes (Scenario B: 3 nodes, 3 connectors, 2 border beams)
C8_FrontCantileverGain ==
    (FrontOnly /\ use_enhanced /\ pc = "done") =>
        LET base == {BaselineNodes.nodes[t] : t \in DOMAIN BaselineNodes.nodes}
            now == {ops_nodes[t] : t \in Tags}
            gained(z) == {c \in now \ base : c[3] = z}
            beamsNow == EndsOf(beam_elements_x_ids) \cup EndsOf(beam_elements_y_ids)
            extra == EndsOf(cantilever_beam_ids)
            connectors(z) == {b \in extra : b[1][3] = z /\ b[1][1] = CoreSpanX}
            borders(z) == {b \in extra : b[1][3] = z /\ b[1][1] = FrontX}
        IN  /\ base \subseteq now
            /\ Cardinality(Tags) = Cardinality(now)
            /\ gained(0) = {}
            /\ {ops_nodes[t] : t \in ops_fixed} = {c \in base : c[3] = 0}
            /\ beamsNow = BaselineBeams
            /\ Cardinality(extra) = Len(cantilever_beam_ids)
            /\ \A k \in 1..NF :
                  /\ gained(LevelZ(k)) = {<<FrontX, y, LevelZ(k)>> : y \in CoreYs}
                  /\ Cardinality(gained(LevelZ(k))) = NY + 1
                  /\ connectors(LevelZ(k)) =
                        {<<<<CoreSpanX, y, LevelZ(k)>>, <<FrontX, y, LevelZ(k)>>>> :
                            y \in CoreYs}
                  /\ Cardinality(connectors(LevelZ(k))) = NY + 1
                  /\ borders(LevelZ(k)) =
                        {<<<<FrontX, At(y_coords, j), LevelZ(k)>>,
                           <<FrontX, At(y_coords, j + 1), LevelZ(k)>>>> : j \in 0..(NY - 1)}
                  /\ Cardinality(borders(LevelZ(k))) = NY
            /\ Len(cantilever_beam_ids) = NF * (2 * NY + 1)

C8_Witness ==
    /\ FrontOnly
    /\ use_enhanced
    /\ pc = "done"
    /\ NX = 2 /\ NY = 2 /\ NF = 1
    /\ Len(cantilever_beam_ids) = 5
    /\ total_nodes = 21

\* C9: for each active cantilever side (front, right, left) and each level
\* >= 1 a connector beam joins the last core node of every row/column to the
\* cantilever node of that row/column: every cantilever node is an end of a
\* beam whose other end is a core node
C9_EveryCantileverNodeConnected ==
    (use_enhanced /\ pc = "done") =>
        \A t \in Tags :
            IsCantileverNode(t) =>
                \E e \in AllBeamIds :
                    \/ EndA(e) = t /\ IsCoreNode(EndB(e))
                    \/ EndB(e) = t /\ IsCoreNode(EndA(e))

LengthsMatch ==
    /\ Len(geometry_data.bay_widths_x) = NX
    /\ Len(geometry_data.bay_widths_y) = NY
    /\ Len(geometry_data.story_heights) = NF

\* C11: when the length of bay_widths_x, bay_widths_y or story_heights differs
\* from num_bay_x, num_bay_y or num_floor, node generation fails before any
\* node is created: the engine holds no node, with either generator
C11_MismatchCreatesNoNode ==
    ~LengthsMatch => (DOMAIN ops_nodes = {} /\ ~NodesGenerated)

\* C13: the boundary-condition applier returns the number of nodes it fixed,
\* that number is (nx+1)*(ny+1), and main holds it as restricted_nodes
C13_ReturnsFixedCount ==
    (use_enhanced /\ pc = "done") =>
        /\ ~restricted_nodes.is_none
        /\ restricted_nodes.val = (NX + 1) * (NY + 1)

\* candidates the column connector visited, and those it turned into no element
ColumnCandidateCount ==
    IF use_enhanced
    THEN (Len(z_coords) - 1) * (Len(geometry_data.bay_widths_x) + 1)
                             * (Len(geometry_data.bay_widths_y) + 1)
    ELSE NF * (NX + 1) * (NY + 1)

BeamCandidateCount ==
    IF use_enhanced
    THEN Len(AllCandidates(1, Len(z_coords), Len(geometry_data.bay_widths_x) + 1,
                           Len(geometry_data.bay_widths_y) + 1, Len(extended_x_coords),
                           Len(extended_y_coords), cantilever_config, 2))
    ELSE Len(LegacyXCandidates(geometry_data)) + Len(LegacyYCandidates(geometry_data))

SkippedCandidates ==
    (ColumnCandidateCount - Len(column_elements_ids))
    + (BeamCandidateCount - Cardinality(AllBeamIds))

\* C14: a candidate whose node is missing or whose pair is not axis-aligned
\* yields no element, is reported, and the run completes: at the end of a run
\* the number of reported skips equals the number of candidates left out
C14_SkipsReported ==
    pc = "done" => skip_log = SkippedCandidates

\* some core position has a group id without supplied dimensions
GroupMissing ==
    /\ column_config = "custom_groups"
    /\ \E i \in 0..Len(geometry_data.bay_widths_x), j \in 0..Len(geometry_data.bay_widths_y) :
         i * (Len(geometry_data.bay_widths_y) + 1) + j + 1 \notin column_groups

\* C15: with custom groups, when the group id of some core position has no
\* supplied dimensions, column generation fails and creates no column element
C15_MissingGroupNoColumn ==
    GroupMissing => (DOMAIN ops_elements = {} /\ ~ColumnsGenerated)

\* the policy function of the claim, on core indices
PolicyGroup(i, j) ==
    IF column_config = "uniform" THEN 1
    ELSE IF column_config = "exterior_interior"
         THEN IF i \in {0, NX} \/ j \in {0, NY} THEN 1 ELSE 2
    ELSE i * (NY + 1) + j + 1

\* core indices of the position column e stands on: the row index of its
\* bottom node, less the row the left cantilever inserted
ColumnI(e) == node_index[EndA(e)][1]
ColumnJ(e) == node_index[EndA(e)][2] - YOffset(cantilever_config)

\* C16: the section group of the column at core position (i, j) is the policy
\* function of (i, j) for every cantilever combination; for custom groups it is
\* the id advanced_config gave that position, and distinct positions get
\* distinct ids
C16_SectionGroupByPosition ==
    (use_enhanced /\ ColumnsGenerated) =>
        \A e \in Range(column_elements_ids) :
            /\ ops_elements[e].sec = PolicyGroup(ColumnI(e), ColumnJ(e))
            /\ column_config = "custom_groups" =>
                 /\ ops_elements[e].sec = AdvancedGroupId(ColumnI(e), ColumnJ(e), NY + 1)
                 /\ \A f \in Range(column_elements_ids) :
                      ops_elements[e].sec = ops_elements[f].sec =>
                          (ColumnI(e) = ColumnI(f) /\ ColumnJ(e) = ColumnJ(f))

\* row index (second index of the index map) of node t, and the rows the
\* core occupies once the left cantilever has taken row 0
RowOf(t) == node_index[t][2]
ShiftedCoreRows == 1..(NY + 1)

\* C17: with a left cantilever every consumer of the index map works on the
\* core rows shifted by +1, whatever geometry_data holds: the columns stand on
\* exactly the shifted core rows, and no column, core beam or fixity touches
\* the left-cantilever row
C17_SameRowOffset ==
    (use_enhanced /\ Active(cantilever_config.left)) =>
        /\ ColumnsGenerated =>
             /\ {RowOf(EndA(e)) : e \in Range(column_elements_ids)} = ShiftedCoreRows
             /\ {RowOf(EndB(e)) : e \in Range(column_elements_ids)} = ShiftedCoreRows
        /\ pc \in {"beams", "done"} =>
             \A e \in Range(beam_elements_x_ids) \cup Range(beam_elements_y_ids) :
                 RowOf(EndA(e)) \in ShiftedCoreRows /\ RowOf(EndB(e)) \in ShiftedCoreRows
        /\ pc = "done" => \A t \in ops_fixed : RowOf(t) \in ShiftedCoreRows

StrictlyIncreasing(seq) == \A n \in 1..(Len(seq) - 1) : seq[n] < seq[n + 1]

\* C18 as stated: one counter serves nodes and elements, so no tag value is
\* issued to a node and to an element of the same run, and tags increase in
\* creation order
C18_SingleSharedCounter ==
    /\ DOMAIN ops_nodes \cap DOMAIN ops_elements = {}
    /\ StrictlyIncreasing(node_order)
    /\ StrictlyIncreasing(ele_order)

\* C18 as amended: node tags come from one counter and element tags from a
\* second one that columns and beams share; within each kind tags start at 1,
\* are never issued twice and strictly increase in creation order
C18_CounterPerKind ==
    /\ StrictlyIncreasing(node_order)
    /\ StrictlyIncreasing(ele_order)
    /\ Range(node_order) = 1..Len(node_order)
    /\ Range(ele_order) = 1..Len(ele_order)
    /\ DOMAIN ops_nodes = Range(node_order)
    /\ DOMAIN ops_elements = Range(ele_order)
    /\ pc \in {"beams", "done"} =>
         LET returned == column_elements_ids \o beam_elements_x_ids
                             \o beam_elements_y_ids \o cantilever_beam_ids
         IN  Len(returned) = Len(ele_order) /\ Range(returned) = Range(ele_order)

C18_Witness ==
    /\ pc = "done"
    /\ use_enhanced
    /\ Active(cantilever_config.front)
    /\ Len(node_order) > 0
    /\ Len(column_elements_ids) > 0
    /\ Len(cantilever_beam_ids) > 0
    /\ 1 \in DOMAIN ops_nodes \cap DOMAIN ops_elements

\* C19: a second generation run in the same process is not disturbed by the
\* first, whether or not the caller reset the engine in between: it does not
\* fail, and it ends with the nodes, elements, fixities and tags the same
\* configuration produces when run alone
C19_RunsIndependent ==
    run = 2 =>
        /\ pc # "error"
        /\ pc = "done" => Snapshot = first_run

\* C20: nodes are only created from strictly increasing axis coordinates: along
\* each axis a node with a larger index has a larger coordinate, so the core
\* coordinates increase and the cantilever rows and columns lie outside the core
C20_CoordinatesIncreasing ==
    NodesGenerated =>
        \A t \in Tags, u \in Tags : \A axis \in 1..3 :
            node_index[t][axis] < node_index[u][axis] =>
                ops_nodes[t][axis] < ops_nodes[u][axis]

\* C21: when the configuration file is malformed or its geometry lists do not
\* match the declared counts, the error is fatal: get_building_geometry_data
\* returns no geometry and main generates no node and no element, neither from
\* the file nor from substituted default geometry.
C21_ConfigErrorIsFatal ==
    config_error =>
        /\ geometry_data = NoGeometry
        /\ ops_nodes = EmptyMap
        /\ ops_elements = EmptyMap

\* create_nodes of the current run has returned
LegacyNodesCreated ==
    ~use_enhanced /\ pc \notin {"input", "start", "model", "error"}

\* the tag get_node_tag_from_indices gives to level k, row j, column i
TagAt(k, j, i) ==
    get_node_tag_from_indices(k, j, i, geometry_data.num_bay_x, geometry_data.num_bay_y)

GridIndices == (0..NF) \X (0..NY) \X (0..NX)

\* C22: for a model built by create_nodes, get_node_tag_from_indices(k, j, i,
\* num_bay_x, num_bay_y) is the tag of the node created at column i, row j,
\* level k, for every index of the grid; it is injective on the grid and its
\* image is exactly 1..total_nodes.
C22_TagFromIndices ==
    LegacyNodesCreated =>
        /\ \A g \in GridIndices :
                LET t == TagAt(g[1], g[2], g[3])
                IN  /\ t \in DOMAIN ops_nodes
                    /\ node_index[t] = <<g[3], g[2], g[1]>>
                    /\ ops_nodes[t] = <<SumSeq(SubSeq(geometry_data.bay_widths_x, 1, g[3])),
                                        SumSeq(SubSeq(geometry_data.bay_widths_y, 1, g[2])),
                                        SumSeq(SubSeq(geometry_data.story_heights, 1, g[1]))>>
        /\ \A g, h \in GridIndices :
                TagAt(g[1], g[2], g[3]) = TagAt(h[1], h[2], h[3]) => g = h
        /\ {TagAt(g[1], g[2], g[3]) : g \in GridIndices} = 1..total_nodes

C22_Witness ==
    /\ LegacyNodesCreated
    /\ NX = 2 /\ NY = 1 /\ NF = 2
    /\ total_nodes = 18
    /\ TagAt(2, 1, 2) = 18
    /\ node_index[TagAt(1, 1, 0)] = <<0, 1, 1>>

\* create_slabs of the current run has returned
SlabsCreated == pc \in {"slabs", "loads"}

\* the bays of the core footprint at the levels above the base: <<k, j, i>>
CoreBays == (1..NF) \X (0..(NY - 1)) \X (0..(NX - 1))

CoreX(i) == SumSeq(SubSeq(geometry_data.bay_widths_x, 1, i))
CoreY(j) == SumSeq(SubSeq(geometry_data.bay_widths_y, 1, j))

\* the positions of the corners (i,j), (i+1,j), (i+1,j+1), (i,j+1) of a bay
BayCorners(b) ==
    LET z == LevelZ(b[1])
    IN  <<<<CoreX(b[3]), CoreY(b[2]), z>>, <<CoreX(b[3] + 1), CoreY(b[2]), z>>,
          <<CoreX(b[3] + 1), CoreY(b[2] + 1), z>>, <<CoreX(b[3]), CoreY(b[2] + 1), z>>>>

\* where the four nodes of a shell are
ShellCorners(s) == {ops_nodes[ops_shells[s].nodes[n]] : n \in 1..4}

\* C23: every shell created by create_slabs joins the four corner nodes of one
\* core bay at one level k >= 1, and every bay of every such level carries
\* exactly one shell, after the legacy and after the cantilever-aware node
\* generation.
C23_ShellsOnCoreBays ==
    SlabsCreated =>
        /\ \A s \in DOMAIN ops_shells : \E b \in CoreBays : ShellCorners(s) = Range(BayCorners(b))
        /\ \A b \in CoreBays :
               Cardinality({s \in DOMAIN ops_shells :
                               ShellCorners(s) = Range(BayCorners(b))}) = 1

RECURSIVE SumValues(_)
SumValues(loads) == IF Len(loads) = 0 THEN 0 ELSE loads[1].value + SumValues(Tail(loads))

\* the nodal loads of the dead-load pattern
DeadNodalLoads == SelectSeq(ops_loads, LAMBDA l : l.pattern = 1 /\ l.kind = "node")

RECURSIVE SumAreas(_)
SumAreas(positions) ==
    IF positions = {} THEN 0
    ELSE LET g == CHOOSE q \in positions : TRUE
         IN  calculate_tributary_area(geometry_data, g[1], g[2]) + SumAreas(positions \ {g})

\* C30: the tributary areas of calculate_tributary_area summed over the
\* (nx+1)*(ny+1) grid positions of a floor equal the plan area
\* sum(bay_widths_x) * sum(bay_widths_y), so the dead load applied to the nodes
\* of levels 1..num_floor adds up to the total apply_loads reports.
C30_SlabLoadConserved ==
    pc = "loads" =>
        /\ SumAreas((0..NX) \X (0..NY))
              = (CoreSpanX \div AreaUnit) * (CoreSpanY \div AreaUnit)
        /\ Len(DeadNodalLoads) = NF * (NX + 1) * (NY + 1)
        /\ SumValues(DeadNodalLoads) = total_dead_load
        /\ total_dead_load = dead_load_slab * (CoreSpanX \div AreaUnit)
                                * (CoreSpanY \div AreaUnit) * NF

C30_Witness ==
    /\ pc = "loads"
    /\ geometry_data.bay_widths_x = <<2000, 3000>>
    /\ geometry_data.bay_widths_y = <<3000, 3000>>
    /\ NF = 2
    /\ total_dead_load = 9 * 50 * 60 * 2
    /\ \E n \in 1..Len(ops_loads) :
           ops_loads[n] = NodalLoad(1, get_node_tag_from_indices(1, 1, 1, 2, 2),
                                    9 * 25 * 30)

\* the nodes joined to the set by a chain of created columns and beams
RECURSIVE ConnectedTo(_)
ConnectedTo(joined) ==
    LET more == {t \in Tags \ joined :
                    \E e \in DOMAIN ops_elements :
                        \/ EndA(e) = t /\ EndB(e) \in joined
                        \/ EndB(e) = t /\ EndA(e) \in joined}
    IN  IF more = {} THEN joined ELSE ConnectedTo(joined \cup more)

\* C26: in every model of the enhanced generator, for every cantilever
\* combination, every node is joined by a chain of created elements (columns,
\* beams, cantilever beams) to at least one fixed base node.
C26_EveryNodeRestrained ==
    (use_enhanced /\ pc = "done") => ConnectedTo(ops_fixed) = Tags

\* the section an element of the frame refers to, and the class it was defined for
SectionClassOf(e) == ops_sections[ops_elements[e].sec]

\* C27: section ids never alias across element classes: under every column
\* policy each column, each main beam (id 2, or 20 as fallback), each
\* cantilever edge beam (ids 101-103) and each shell refers to a section id
\* that was defined for its own class, and no definition of an id that
\* already exists is dropped silently.
C27_SectionsNeverAlias ==
    (use_enhanced /\ pc \in {"beams", "done", "slabs", "loads"}) =>
        /\ \A e \in Range(column_elements_ids) : SectionClassOf(e) = "column"
        /\ \A e \in Range(beam_elements_x_ids) \cup Range(beam_elements_y_ids) :
               SectionClassOf(e) = "beam"
        /\ \A e \in Range(cantilever_beam_ids) :
               ops_elements[e].sec \in {101, 102, 103} => SectionClassOf(e) = "cantilever"
        /\ \A t \in DOMAIN ops_shells : ops_sections[ops_shells[t].sec] = "slab"
        /\ ignored_duplicates = 0

\* the lists hold no tag twice and no tag in common
DisjointLists(lists) ==
    /\ \A n \in 1..Len(lists) : Cardinality(Range(lists[n])) = Len(lists[n])
    /\ \A n, m \in 1..Len(lists) : n # m => Range(lists[n]) \cap Range(lists[m]) = {}

FrameLists ==
    <<column_elements_ids, beam_elements_x_ids, beam_elements_y_ids, cantilever_beam_ids>>

\* C28: element tags are threaded through the connector calls without gaps or
\* reuse: the id lists returned for columns, X beams, Y beams, cantilever beams
\* and slab shells are pairwise disjoint, their union is 1..next_tag-1 of the
\* last call, and each call's returned next tag is one more than the largest
\* tag issued so far, in both pipelines.
C28_ElementTagsThreaded ==
    /\ pc = "columns" =>
           /\ DisjointLists(<<column_elements_ids>>)
           /\ Range(column_elements_ids) = 1..(next_ele_tag - 1)
    /\ pc \in {"beams", "done", "slabs", "loads"} =>
           /\ DisjointLists(FrameLists)
           /\ Range(column_elements_ids) \cup AllBeamIds = 1..(next_ele_tag - 1)
           /\ DOMAIN ops_elements = 1..(next_ele_tag - 1)
    /\ pc \in {"slabs", "loads"} =>
           /\ DisjointLists(Append(FrameLists, slab_elements_ids))
           /\ Range(slab_elements_ids) = next_ele_tag..(next_ele_tag_after_slabs - 1)
           /\ DOMAIN ops_shells = Range(slab_elements_ids)

C28_Witness ==
    /\ pc = "loads"
    /\ use_enhanced
    /\ run = 1
    /\ NX = 2 /\ NY = 1 /\ NF = 2
    /\ Len(cantilever_beam_ids) > 0
    /\ Len(slab_elements_ids) = 4
    /\ next_ele_tag_after_slabs = next_ele_tag + 4
    /\ next_ele_tag = Len(column_elements_ids) + Cardinality(AllBeamIds) + 1

\* C24: in main, report generation, visualization and the ACI load-combination
\* analysis are executed only after analysis.run_analysis() returned True; when
\* it returned False main ends without executing any of these steps
C24_PostStepsOnlyAfterSuccess ==
    /\ steps # <<>> => analysis_successful = "True"
    /\ multi_returned # "not_called" => analysis_successful = "True"
    /\ analysis_successful = "False"
          => /\ steps = <<>>
             /\ pc \in {"analysed", "ended"}

\* the analysis succeeded and main went through the three steps
C24_Witness ==
    /\ analysis_successful = "True"
    /\ steps = <<"reports", "visualization", "aci">>
    /\ pc = "ended"

\* the analysis timed out and main ended with no step executed
C24_WitnessFailed ==
    /\ analysis_successful = "False"
    /\ status = "TIMEOUT"
    /\ steps = <<>>
    /\ pc = "ended"

\* C25: the solver engine is never operated on by two threads at once: no
\* engine operation is issued by the caller while a thread started by
\* analyze_with_timeout is still inside ops.analyze(1), the next combination's
\* wipeAnalysis / remove / load application included
C25_EngineUsedByOneThread == concurrent_engine_use = FALSE

\* the combinations whose analysis succeeded and whose results were extracted
Extracted == {selected_combinations[n] :
                 n \in {m \in 1..Len(outcomes) : outcomes[m] = "extracted"}}

\* C29: run_multi_load_combination_analysis treats each selected combination
\* independently: every combination is processed whatever happened to the
\* earlier ones, the returned map holds exactly the combinations whose analysis
\* succeeded and whose results were extracted, and None is returned exactly
\* when there is no such combination
C29_CombinationsIndependent ==
    multi_returned \in {"None", "all_results"}
       => /\ Len(outcomes) = Len(selected_combinations)
          /\ \A n \in 1..Len(outcomes) :
                (outcomes[n] = "unknown") <=> (selected_combinations[n] \notin ACICombinations)
          /\ all_results = Extracted
          /\ (multi_returned = "None") <=> (Extracted = {})

\* the first combination raised while it was prepared, the second one was
\* analysed and its results are in the returned map
C29_Witness ==
    /\ multi_returned = "all_results"
    /\ outcomes = <<"exception", "extracted">>
    /\ all_results = {selected_combinations[2]}

====
